---- MODULE Spec2Model ----
\* A model of the JVM class-file decoder of bvm: the byte reader, the
\* constant pool with its skip table, the name-dispatched attribute decoder
\* and the top-down Class::read assembler.
EXTENDS Integers, Sequences, FiniteSets, TLC

\* ===========================================================================
\* BOUNDS
\* ===========================================================================

\* Largest logical index a consumer asks the pool for.
MaxIndex == 6

\* Largest number of surplus bytes appended after a well-formed class.
MaxTrailing == 1

\* ===========================================================================
\* BYTE SOURCE (byteorder::ReadBytesExt over a sequential reader)
\* A reader is the pair (s, p): the bytes s and the number p of bytes consumed.
\* Every read returns a result record: st is "ok", "err" or "panic", pos the
\* reader position afterwards, val the decoded value, err the error message
\* and log the attribute decodes that happened inside the read.
\* ===========================================================================

NoVal == [kind |-> "none"]

Ok(p, v) == [st |-> "ok", pos |-> p, val |-> v, err |-> "", log |-> <<>>]

\* ClassLoadingError::new(msg)
ClassLoadingError(p, msg) ==
    [st |-> "err", pos |-> p, val |-> NoVal, err |-> msg, log |-> <<>>]

\* A Rust panic: the process unwinds, nothing is returned.
Panic(p) == [st |-> "panic", pos |-> p, val |-> NoVal, err |-> "panic", log |-> <<>>]

\* A result with the attribute decodes of earlier reads put in front of its own.
WithLog(log, r) == [r EXCEPT !.log = log \o @]

\* let x = v; K(x)
Let(v, K(_)) == CHOOSE y \in {K(x) : x \in {v}} : TRUE

\* let x = r?; K(x): a result that is not Ok is returned as it is, an Ok one
\* is bound and the statements K that follow run.
Then(r, K(_)) ==
    CHOOSE y \in {IF x.st # "ok" THEN x ELSE WithLog(x.log, K(x)) : x \in {r}} : TRUE

\* From<io::Error>: read_exact found fewer bytes than asked for; the reader
\* has drained what was left.
IoError(s) == ClassLoadingError(Len(s), "failed to fill whole buffer")

read_u8(s, p) ==
    IF p + 1 <= Len(s) THEN Ok(p + 1, s[p + 1]) ELSE IoError(s)

read_u16(s, p) ==
    IF p + 2 <= Len(s) THEN Ok(p + 2, s[p + 1] * 256 + s[p + 2]) ELSE IoError(s)

\* A u32 is kept as its two 16-bit halves, so that every value of the wire
\* (0xCAFEBABE included) stays inside the checker's integers.
read_u32(s, p) ==
    IF p + 4 <= Len(s)
    THEN Ok(p + 4, [hi |-> s[p + 1] * 256 + s[p + 2], lo |-> s[p + 3] * 256 + s[p + 4]])
    ELSE IoError(s)

\* `as usize` of a u32 that is used as a byte count. Counts of 2^31 and more
\* saturate: no input of the model is that long, so the read that follows
\* fails on them exactly as it does on the true count.
as_usize(v) ==
    IF v.hi < 32768 THEN v.hi * 65536 + v.lo ELSE 2147483647

\* vec![0; n] followed by read in place of read_exact: at the end of the
\* input the bytes that are left are taken and the rest of the buffer stays
\* zero. C25 must tell this variant from read_exact.
read_exact_short(s, p, n) ==
    IF p + n <= Len(s)
    THEN Ok(p + n, SubSeq(s, p + 1, p + n))
    ELSE Ok(Len(s), SubSeq(s, p + 1, Len(s)) \o [i \in 1..(p + n - Len(s)) |-> 0])

\* vec![0; n] followed by read_exact
read_exact(s, p, n) ==
    IF p + n <= Len(s) THEN Ok(p + n, SubSeq(s, p + 1, p + n)) ELSE IoError(s)

\* n u16 in a row, each with its own `?`: the shape of the fixed-size records.
RECURSIVE read_u16s(_, _, _, _)
read_u16s(s, p, n, acc) ==
    IF n = 0 THEN Ok(p, acc)
    ELSE Then(read_u16(s, p),
              LAMBDA r : read_u16s(s, r.pos, n - 1, Append(acc, r.val)))

\* bitflags from_bits_truncate: the bits outside the declared flags are
\* dropped, never refused. C18 must tell this variant from from_bits.
from_bits_truncate(flags, v) == TRUE

\* bitflags from_bits: None as soon as a bit outside the declared flags is set.
from_bits(flags, v) ==
    \A b \in 0..15 : ((v \div (2 ^ b)) % 2 = 1) => (2 ^ b) \in flags

\* ===========================================================================
\* CONTEXT
\* ===========================================================================

NoPool == [constants |-> <<>>, skip_table |-> <<>>]

EmptyContext == [constant_pool |-> NoPool, name_index |-> 0, length |-> 0]

ConstantPoolContext(pool) == [constant_pool |-> pool, name_index |-> 0, length |-> 0]

AttributeContext(pool, name_index, length) ==
    [constant_pool |-> pool, name_index |-> name_index, length |-> length]

\* ===========================================================================
\* CONSTANT POOL
\* ===========================================================================

\* The tag match without the two tags that class files have had since Java 9.
\* C14 must tell this variant from ConstantKind.
ConstantKind_before_modules(tag) ==
    CASE tag = 1 -> "Utf8"
      [] tag = 3 -> "Integer"
      [] tag = 4 -> "Float"
      [] tag = 5 -> "Long"
      [] tag = 6 -> "Double"
      [] tag = 7 -> "Class"
      [] tag = 8 -> "String"
      [] tag = 9 -> "Field"
      [] tag = 10 -> "Method"
      [] tag = 11 -> "InterfaceMethod"
      [] tag = 12 -> "NameAndType"
      [] tag = 15 -> "MethodHandle"
      [] tag = 16 -> "MethodType"
      [] tag = 18 -> "InvokeDynamic"
      [] OTHER -> "unknown"

ConstantKind(tag) ==
    CASE tag = 1 -> "Utf8"
      [] tag = 3 -> "Integer"
      [] tag = 4 -> "Float"
      [] tag = 5 -> "Long"
      [] tag = 6 -> "Double"
      [] tag = 7 -> "Class"
      [] tag = 8 -> "String"
      [] tag = 9 -> "Field"
      [] tag = 10 -> "Method"
      [] tag = 11 -> "InterfaceMethod"
      [] tag = 12 -> "NameAndType"
      [] tag = 15 -> "MethodHandle"
      [] tag = 16 -> "MethodType"
      [] tag = 18 -> "InvokeDynamic"
      [] tag = 19 -> "Module"
      [] tag = 20 -> "Package"
      [] OTHER -> "unknown"

\* A record of n consecutive u16 fields, kept in wire order.
U16Record(kind, s, p, n) ==
    Then(read_u16s(s, p, n, <<>>),
         LAMBDA r : Ok(r.pos, [kind |-> kind, fields |-> r.val]))

\* Integer, Float (4 bytes) and Long, Double (8 bytes): the value is the
\* big-endian bit pattern read.
Numeric_read_one(kind, s, p) ==
    Then(read_exact(s, p, IF kind \in {"Long", "Double"} THEN 8 ELSE 4),
         LAMBDA value : Ok(value.pos, [kind |-> kind, value |-> value.val]))

\* Class, String, MethodType, Module, Package: one u16; Field, Method,
\* InterfaceMethod, NameAndType, InvokeDynamic: two u16.
Reference_read_one(kind, s, p) ==
    U16Record(kind, s, p,
              IF kind \in {"Class", "String", "MethodType", "Module", "Package"}
              THEN 1 ELSE 2)

\* String::from_utf8 on the bytes: they are one well-formed sequence of
\* standard UTF-8 after the other (no overlong form, no surrogate, nothing
\* above U+10FFFF).
RECURSIVE from_utf8(_)
from_utf8(bytes) ==
    IF bytes = <<>> THEN TRUE
    ELSE LET b == bytes[1]
             n == IF b < 128 THEN 1
                  ELSE IF b \in 194..223 THEN 2
                  ELSE IF b \in 224..239 THEN 3
                  ELSE IF b \in 240..244 THEN 4
                  ELSE 0
             second == IF b = 224 THEN 160..191
                       ELSE IF b = 237 THEN 128..159
                       ELSE IF b = 240 THEN 144..191
                       ELSE IF b = 244 THEN 128..143
                       ELSE 128..191
         IN /\ n > 0
            /\ Len(bytes) >= n
            /\ n >= 2 => bytes[2] \in second
            /\ \A i \in 3..n : bytes[i] \in 128..191
            /\ from_utf8(SubSeq(bytes, n + 1, Len(bytes)))

\* A Utf8 decoder that turns the bytes into a String with String::from_utf8
\* and fails when they are not standard UTF-8. C24 must tell this variant
\* from Utf8_read_one.
Utf8_read_one_from_utf8(s, p) ==
    Then(read_u16(s, p), LAMBDA length :
    Then(read_exact(s, length.pos, length.val), LAMBDA bytes :
    IF from_utf8(bytes.val)
    THEN Ok(bytes.pos, [kind |-> "Utf8", bytes |-> bytes.val])
    ELSE ClassLoadingError(bytes.pos, "invalid utf-8 sequence")))

Utf8_read_one(s, p) ==
    Then(read_u16(s, p), LAMBDA length :
    Then(read_exact(s, length.pos, length.val), LAMBDA bytes :
    Ok(bytes.pos, [kind |-> "Utf8", bytes |-> bytes.val])))

MethodHandle_read_one(s, p) ==
    Then(read_u8(s, p), LAMBDA reference_kind :
    Then(read_u16(s, reference_kind.pos), LAMBDA reference_index :
    Ok(reference_index.pos,
       [kind |-> "MethodHandle",
        fields |-> <<reference_kind.val, reference_index.val>>])))

Constant_read_one(s, p) ==
    Then(read_u8(s, p), LAMBDA tag :
    Let(ConstantKind(tag.val), LAMBDA kind :
    CASE kind = "unknown" -> ClassLoadingError(tag.pos, "Cannot match constant tag")
      [] kind = "Utf8" -> Utf8_read_one(s, tag.pos)
      [] kind \in {"Integer", "Float", "Long", "Double"} ->
           Numeric_read_one(kind, s, tag.pos)
      [] kind = "MethodHandle" -> MethodHandle_read_one(s, tag.pos)
      [] OTHER -> Reference_read_one(kind, s, tag.pos)))

Constant_skip_amount(element) ==
    IF element.kind \in {"Long", "Double"} THEN 1 ELSE 0

RECURSIVE assemble_skip_table_from(_, _)
assemble_skip_table_from(constants, i) ==
    IF i >= Len(constants) THEN <<>>
    ELSE (IF constants[i + 1].kind \in {"Long", "Double"} THEN <<i>> ELSE <<>>)
         \o assemble_skip_table_from(constants, i + 1)

assemble_skip_table(constants) == assemble_skip_table_from(constants, 0)

RECURSIVE SumSeq(_)
SumSeq(q) == IF q = <<>> THEN 0 ELSE Head(q) + SumSeq(Tail(q))

\* The skips of ConstantPool::index: the entries of the skip table below
\* vec_index, summed.
index_skips(skip_table, vec_index) ==
    SumSeq(SelectSeq(skip_table, LAMBDA x : x < vec_index))

\* impl Index<usize> for ConstantPool: index - 1 and vec_index - skips are
\* usize subtractions and constants[..] is a bounds-checked access, so every
\* out-of-range case ends in a panic (overflow check or index out of bounds).
ConstantPool_index(pool, index) ==
    IF index - 1 < 0 THEN Panic(0)
    ELSE Let(index - 1, LAMBDA vec_index :
         Let(vec_index - index_skips(pool.skip_table, vec_index), LAMBDA skipped_index :
         IF skipped_index < 0 \/ skipped_index >= Len(pool.constants)
         THEN Panic(0)
         ELSE Ok(0, pool.constants[skipped_index + 1])))

\* ===========================================================================
\* COMMON TRAITS (ReadOne / ReadAll)
\* T names the element type; read_one(T, ..) is T::read_one.
\* ===========================================================================

RECURSIVE read_one(_, _, _, _)
RECURSIVE read_loop(_, _, _, _, _, _, _)

\* A read_count that is a u16 for every element type. C26 must tell this
\* variant from read_count.
read_count_u16(T, s, p) == read_u16(s, p)

\* ReadAll::read_count: a u16, but a single byte for parameter annotations.
read_count(T, s, p) ==
    IF T = "ParameterAnnotationAttribute" THEN read_u8(s, p) ELSE read_u16(s, p)

\* A skip_amount of 1 for every element type: each element would take two
\* places of the count. C19 must tell this variant from skip_amount.
skip_amount_wide(T, element) == 1

\* ReadAll::skip_amount: 0, overridden for Constant.
skip_amount(T, element) ==
    IF T = "Constant" THEN Constant_skip_amount(element) ELSE 0

\* The while loop of ReadAll::read_all_from.
read_loop(T, s, p, context, index, count, elements) ==
    IF ~(index < count)
    THEN Ok(p, elements)
    ELSE Then(read_one(T, s, p, context), LAMBDA element :
         read_loop(T, s, element.pos, context,
                   index + 1 + skip_amount(T, element.val), count,
                   Append(elements, element.val)))

read_all_from(T, s, p, context, from) ==
    Then(read_count(T, s, p), LAMBDA count :
    read_loop(T, s, count.pos, context, from, count.val, <<>>))

read_all(T, s, p, context) == read_all_from(T, s, p, context, 0)

\* impl ReadOne for ConstantPool
ConstantPool_read_one(s, p) ==
    Then(read_all_from("Constant", s, p, EmptyContext, 1), LAMBDA constants :
    Ok(constants.pos,
       [constants |-> constants.val,
        skip_table |-> assemble_skip_table(constants.val)]))

\* ===========================================================================
\* ATTRIBUTES
\* ===========================================================================

ConstantValueAttribute_read_one(s, p) == U16Record("ConstantValue", s, p, 1)

ExceptionTableAttribute_read_one(s, p) == U16Record("ExceptionTable", s, p, 4)

\* A Code decoder that gives the nested attributes a pool of their own, an
\* empty one. C27 must tell this variant from CodeAttribute_read_one.
CodeAttribute_read_one_own_pool(s, p, context) ==
    Then(read_u16(s, p), LAMBDA max_stack :
    Then(read_u16(s, max_stack.pos), LAMBDA max_locals :
    Then(read_u32(s, max_locals.pos), LAMBDA code_length :
    Then(read_exact(s, code_length.pos, as_usize(code_length.val)), LAMBDA code :
    Then(read_all("ExceptionTableAttribute", s, code.pos, context),
         LAMBDA exception_tables :
    Then(read_all("Attribute", s, exception_tables.pos, ConstantPoolContext(NoPool)),
         LAMBDA attributes :
    Ok(attributes.pos,
       [kind |-> "Code",
        max_stack |-> max_stack.val,
        max_locals |-> max_locals.val,
        code |-> code.val,
        exception_tables |-> exception_tables.val,
        attributes |-> attributes.val])))))))

CodeAttribute_read_one(s, p, context) ==
    Then(read_u16(s, p), LAMBDA max_stack :
    Then(read_u16(s, max_stack.pos), LAMBDA max_locals :
    Then(read_u32(s, max_locals.pos), LAMBDA code_length :
    Then(read_exact(s, code_length.pos, as_usize(code_length.val)), LAMBDA code :
    Then(read_all("ExceptionTableAttribute", s, code.pos, context),
         LAMBDA exception_tables :
    Then(read_all("Attribute", s, exception_tables.pos,
                  ConstantPoolContext(context.constant_pool)),
         LAMBDA attributes :
    Ok(attributes.pos,
       [kind |-> "Code",
        max_stack |-> max_stack.val,
        max_locals |-> max_locals.val,
        code |-> code.val,
        exception_tables |-> exception_tables.val,
        attributes |-> attributes.val])))))))

\* StackMapFrame ------------------------------------------------------------

\* The tag match with Long and Double taken in the order of the constant
\* pool tags. C16 must tell this variant from VerificationTypeName.
VerificationTypeName_pool_order(tag) ==
    CASE tag = 0 -> "Top"
      [] tag = 1 -> "Integer"
      [] tag = 2 -> "Float"
      [] tag = 5 -> "Null"
      [] tag = 6 -> "UninitializedThis"
      [] tag = 7 -> "Object"
      [] tag = 8 -> "Uninitialized"
      [] tag = 3 -> "Long"
      [] tag = 4 -> "Double"
      [] OTHER -> "unknown"

VerificationTypeName(tag) ==
    CASE tag = 0 -> "Top"
      [] tag = 1 -> "Integer"
      [] tag = 2 -> "Float"
      [] tag = 5 -> "Null"
      [] tag = 6 -> "UninitializedThis"
      [] tag = 7 -> "Object"
      [] tag = 8 -> "Uninitialized"
      [] tag = 4 -> "Long"
      [] tag = 3 -> "Double"
      [] OTHER -> "unknown"

VerificationType_read_one(s, p) ==
    Then(read_u8(s, p), LAMBDA tag :
    Let(VerificationTypeName(tag.val), LAMBDA name :
    CASE name = "unknown" ->
           ClassLoadingError(tag.pos, "Cannot determine verification type")
      [] name \in {"Object", "Uninitialized"} -> U16Record(name, s, tag.pos, 1)
      [] OTHER -> Ok(tag.pos, [kind |-> name, fields |-> <<>>])))

\* The for loop of AppendFrame::read_one.
RECURSIVE AppendFrame_locals(_, _, _, _)
AppendFrame_locals(s, p, n, locals) ==
    IF n = 0 THEN Ok(p, locals)
    ELSE Then(VerificationType_read_one(s, p), LAMBDA local :
         AppendFrame_locals(s, local.pos, n - 1, Append(locals, local.val)))

SameLocalsOneStackItemFrame_read_one(s, p, frame_type) ==
    Then(VerificationType_read_one(s, p), LAMBDA stack :
    Ok(stack.pos, [kind |-> "SameLocalsOneStackItem",
                   offset_delta |-> frame_type - 64,
                   locals |-> <<>>, stack |-> <<stack.val>>]))

SameLocalsOneStackItemExtendedFrame_read_one(s, p) ==
    Then(read_u16(s, p), LAMBDA offset_delta :
    Then(VerificationType_read_one(s, offset_delta.pos), LAMBDA stack :
    Ok(stack.pos, [kind |-> "SameLocalsOneStackItemExtended",
                   offset_delta |-> offset_delta.val,
                   locals |-> <<>>, stack |-> <<stack.val>>])))

\* ChopFrame and SameExtendedFrame: one u16.
OffsetFrame_read_one(kind, s, p) ==
    Then(read_u16(s, p), LAMBDA offset_delta :
    Ok(offset_delta.pos, [kind |-> kind, offset_delta |-> offset_delta.val,
                          locals |-> <<>>, stack |-> <<>>]))

\* An Append frame that takes frame_type - 252 locals. C15 must tell this
\* variant from AppendFrame_read_one.
AppendFrame_read_one_one_less(s, p, frame_type) ==
    Then(read_u16(s, p), LAMBDA offset_delta :
    Then(AppendFrame_locals(s, offset_delta.pos, frame_type - 252, <<>>), LAMBDA locals :
    Ok(locals.pos, [kind |-> "Append", offset_delta |-> offset_delta.val,
                    locals |-> locals.val, stack |-> <<>>])))

AppendFrame_read_one(s, p, frame_type) ==
    Then(read_u16(s, p), LAMBDA offset_delta :
    Then(AppendFrame_locals(s, offset_delta.pos, frame_type - 251, <<>>), LAMBDA locals :
    Ok(locals.pos, [kind |-> "Append", offset_delta |-> offset_delta.val,
                    locals |-> locals.val, stack |-> <<>>])))

FullFrame_read_one(s, p) ==
    Then(read_u16(s, p), LAMBDA offset_delta :
    Then(read_all("VerificationType", s, offset_delta.pos, EmptyContext), LAMBDA locals :
    Then(read_all("VerificationType", s, locals.pos, EmptyContext), LAMBDA stack :
    Ok(stack.pos, [kind |-> "Full", offset_delta |-> offset_delta.val,
                   locals |-> locals.val, stack |-> stack.val]))))

StackMapTableAttribute_read_one(s, p) ==
    Then(read_u8(s, p), LAMBDA frame_type :
    Let(frame_type.val, LAMBDA t :
    CASE t \in 0..63 ->
           Ok(frame_type.pos, [kind |-> "Same", offset_delta |-> t,
                               locals |-> <<>>, stack |-> <<>>])
      [] t \in 64..127 -> SameLocalsOneStackItemFrame_read_one(s, frame_type.pos, t)
      [] t \in 128..246 -> ClassLoadingError(frame_type.pos, "Reserved frame type")
      [] t = 247 -> SameLocalsOneStackItemExtendedFrame_read_one(s, frame_type.pos)
      [] t \in 248..250 -> OffsetFrame_read_one("Chop", s, frame_type.pos)
      [] t = 251 -> OffsetFrame_read_one("SameExtended", s, frame_type.pos)
      [] t \in 252..254 -> AppendFrame_read_one(s, frame_type.pos, t)
      [] t = 255 -> FullFrame_read_one(s, frame_type.pos)
      [] OTHER -> ClassLoadingError(frame_type.pos, "Unknown frame type")))

\* Fixed-shape attributes ----------------------------------------------------

ExceptionIndexAttribute_read_one(s, p) == U16Record("ExceptionIndex", s, p, 1)

PUBLIC == 1
PRIVATE == 2
PROTECTED == 4
STATIC == 8
FINAL == 16
SUPER == 32
SYNCHRONIZED == 32
VOLATILE == 64
BRIDGE == 64
TRANSIENT == 128
VARARGS == 128
NATIVE == 256
INTERFACE == 512
ABSTRACT == 1024
STRICT == 2048
SYNTHETIC == 4096
ANNOTATION == 8192
ENUM == 16384

InnerClassAccessFlags ==
    {PUBLIC, PRIVATE, PROTECTED, STATIC, FINAL, INTERFACE, ABSTRACT, SYNTHETIC,
     ANNOTATION, ENUM}

FieldAccessFlags ==
    {PUBLIC, PRIVATE, PROTECTED, STATIC, FINAL, VOLATILE, TRANSIENT, SYNTHETIC, ENUM}

MethodAccessFlags ==
    {PUBLIC, PRIVATE, PROTECTED, STATIC, FINAL, SYNCHRONIZED, BRIDGE, VARARGS,
     NATIVE, ABSTRACT, STRICT, SYNTHETIC}

ClassAccessFlags ==
    {PUBLIC, FINAL, SUPER, INTERFACE, ABSTRACT, SYNTHETIC, ANNOTATION, ENUM}

InnerClassAttribute_read_one(s, p) ==
    Then(U16Record("InnerClass", s, p, 4), LAMBDA r :
    IF ~from_bits(InnerClassAccessFlags, r.val.fields[4])
    THEN ClassLoadingError(r.pos, "Invalid inner class access flags")
    ELSE Ok(r.pos, r.val))

EnclosingMethodAttribute_read_one(s, p) == U16Record("EnclosingMethod", s, p, 2)

SignatureAttribute_read_one(s, p) == U16Record("Signature", s, p, 1)

SourceFileAttribute_read_one(s, p) == U16Record("SourceFile", s, p, 1)

SourceDebugExtensionAttribute_read_one(s, p, context) ==
    Then(read_exact(s, p, context.length), LAMBDA debug_info :
    Ok(debug_info.pos,
       [kind |-> "SourceDebugExtension", debug_info |-> debug_info.val]))

LineNumberTableAttribute_read_one(s, p) == U16Record("LineNumber", s, p, 2)

LocalVariableTableAttribute_read_one(s, p) == U16Record("LocalVariable", s, p, 5)

LocalVariableTypeTableAttribute_read_one(s, p) ==
    U16Record("LocalVariableType", s, p, 5)

\* Annotations --------------------------------------------------------------

\* The constant tags without 's'. C17 must tell this variant from
\* ConstantElementTags.
ConstantElementTags_primitives == {66, 67, 68, 70, 73, 74, 83, 90}

\* 'B' 'C' 'D' 'F' 'I' 'J' 'S' 'Z' 's'
ConstantElementTags == {66, 67, 68, 70, 73, 74, 83, 90, 115}

ElementValue_read_one(s, p, context) ==
    Then(read_u8(s, p), LAMBDA tag :
    CASE tag.val \in ConstantElementTags -> U16Record("Constant", s, tag.pos, 1)
      [] tag.val = 101 -> U16Record("Enum", s, tag.pos, 2)
      [] tag.val = 99 -> U16Record("Class", s, tag.pos, 1)
      [] tag.val = 64 ->
           Then(read_one("AnnotationAttribute", s, tag.pos, context),
                LAMBDA annotation :
                Ok(annotation.pos,
                   [kind |-> "Annotation", annotation |-> annotation.val]))
      [] tag.val = 91 ->
           Then(read_all("ElementValue", s, tag.pos, context),
                LAMBDA array_values :
                Ok(array_values.pos,
                   [kind |-> "Array", array_values |-> array_values.val]))
      [] OTHER ->
           ClassLoadingError(tag.pos, "Unknown tag for annotation element value"))

ElementValuePair_read_one(s, p, context) ==
    Then(read_u16(s, p), LAMBDA element_name_index :
    Then(ElementValue_read_one(s, element_name_index.pos, context), LAMBDA value :
    Ok(value.pos, [kind |-> "ElementValuePair",
                   element_name_index |-> element_name_index.val,
                   value |-> value.val])))

AnnotationAttribute_read_one(s, p, context) ==
    Then(read_u16(s, p), LAMBDA type_index :
    Then(read_all("ElementValuePair", s, type_index.pos, context),
         LAMBDA element_value_pairs :
    Ok(element_value_pairs.pos,
       [kind |-> "Annotation", type_index |-> type_index.val,
        element_value_pairs |-> element_value_pairs.val])))

ParameterAnnotationAttribute_read_one(s, p, context) ==
    Then(read_all("AnnotationAttribute", s, p, context), LAMBDA annotations :
    Ok(annotations.pos,
       [kind |-> "ParameterAnnotation", annotations |-> annotations.val]))

AnnotationDefaultAttribute_read_one(s, p, context) ==
    Then(ElementValue_read_one(s, p, context), LAMBDA default_value :
    Ok(default_value.pos,
       [kind |-> "AnnotationDefault", default_value |-> default_value.val]))

\* Bootstrap methods --------------------------------------------------------

\* read_u16_into fills the whole vector of bootstrap_argument_count u16 or
\* fails.
BootstrapMethodAttribute_read_one(s, p) ==
    Then(read_u16(s, p), LAMBDA bootstrap_method_ref :
    Then(read_u16(s, bootstrap_method_ref.pos), LAMBDA bootstrap_argument_count :
    Then(read_u16s(s, bootstrap_argument_count.pos, bootstrap_argument_count.val, <<>>),
         LAMBDA bootstrap_arguments :
    Ok(bootstrap_arguments.pos,
       [kind |-> "BootstrapMethod",
        bootstrap_method_ref |-> bootstrap_method_ref.val,
        bootstrap_arguments |-> bootstrap_arguments.val]))))

\* Misc ---------------------------------------------------------------------

MiscAttribute_read_one(s, p, context) ==
    Then(read_exact(s, p, context.length), LAMBDA info :
    Ok(info.pos,
       [kind |-> "Misc", name_index |-> context.name_index, info |-> info.val]))

\* Attribute ----------------------------------------------------------------

\* The attribute names of the match in Attribute::read_one, as the bytes of
\* their Utf8 constants.
Name_ConstantValue ==
    <<67, 111, 110, 115, 116, 97, 110, 116, 86, 97, 108, 117, 101>>

Name_Code ==
    <<67, 111, 100, 101>>

Name_StackMapTable ==
    <<83, 116, 97, 99, 107, 77, 97, 112, 84, 97, 98, 108, 101>>

Name_Exceptions ==
    <<69, 120, 99, 101, 112, 116, 105, 111, 110, 115>>

Name_InnerClasses ==
    <<73, 110, 110, 101, 114, 67, 108, 97, 115, 115, 101, 115>>

Name_EnclosingMethod ==
    <<69, 110, 99, 108, 111, 115, 105, 110, 103, 77, 101, 116, 104, 111,
      100>>

Name_Synthetic ==
    <<83, 121, 110, 116, 104, 101, 116, 105, 99>>

Name_Signature ==
    <<83, 105, 103, 110, 97, 116, 117, 114, 101>>

Name_SourceFile ==
    <<83, 111, 117, 114, 99, 101, 70, 105, 108, 101>>

Name_SourceDebugExtension ==
    <<83, 111, 117, 114, 99, 101, 68, 101, 98, 117, 103, 69, 120, 116,
      101, 110, 115, 105, 111, 110>>

Name_LineNumberTable ==
    <<76, 105, 110, 101, 78, 117, 109, 98, 101, 114, 84, 97, 98, 108,
      101>>

Name_LocalVariableTable ==
    <<76, 111, 99, 97, 108, 86, 97, 114, 105, 97, 98, 108, 101, 84, 97,
      98, 108, 101>>

Name_LocalVariableTypeTable ==
    <<76, 111, 99, 97, 108, 86, 97, 114, 105, 97, 98, 108, 101, 84, 121,
      112, 101, 84, 97, 98, 108, 101>>

Name_Deprecated ==
    <<68, 101, 112, 114, 101, 99, 97, 116, 101, 100>>

Name_RuntimeVisibleAnnotations ==
    <<82, 117, 110, 116, 105, 109, 101, 86, 105, 115, 105, 98, 108, 101,
      65, 110, 110, 111, 116, 97, 116, 105, 111, 110, 115>>

Name_RuntimeInvisibleAnnotations ==
    <<82, 117, 110, 116, 105, 109, 101, 73, 110, 118, 105, 115, 105, 98,
      108, 101, 65, 110, 110, 111, 116, 97, 116, 105, 111, 110, 115>>

Name_RuntimeVisibleParameterAnnotations ==
    <<82, 117, 110, 116, 105, 109, 101, 86, 105, 115, 105, 98, 108, 101,
      80, 97, 114, 97, 109, 101, 116, 101, 114, 65, 110, 110, 111, 116,
      97, 116, 105, 111, 110, 115>>

Name_RuntimeInvisibleParameterAnnotations ==
    <<82, 117, 110, 116, 105, 109, 101, 73, 110, 118, 105, 115, 105, 98,
      108, 101, 80, 97, 114, 97, 109, 101, 116, 101, 114, 65, 110, 110,
      111, 116, 97, 116, 105, 111, 110, 115>>

Name_AnnotationDefault ==
    <<65, 110, 110, 111, 116, 97, 116, 105, 111, 110, 68, 101, 102, 97,
      117, 108, 116>>

Name_BootstrapMethods ==
    <<66, 111, 111, 116, 115, 116, 114, 97, 112, 77, 101, 116, 104, 111,
      100, 115>>

\* attribute_name.as_str() matched against the known names; "Misc" is the
\* default arm.
AttributeKind(name) ==
    CASE name = Name_ConstantValue -> "ConstantValue"
      [] name = Name_Code -> "Code"
      [] name = Name_StackMapTable -> "StackMapTable"
      [] name = Name_Exceptions -> "Exceptions"
      [] name = Name_InnerClasses -> "InnerClasses"
      [] name = Name_EnclosingMethod -> "EnclosingMethod"
      [] name = Name_Synthetic -> "Synthetic"
      [] name = Name_Signature -> "Signature"
      [] name = Name_SourceFile -> "SourceFile"
      [] name = Name_SourceDebugExtension -> "SourceDebugExtension"
      [] name = Name_LineNumberTable -> "LineNumberTable"
      [] name = Name_LocalVariableTable -> "LocalVariableTable"
      [] name = Name_LocalVariableTypeTable -> "LocalVariableTypeTable"
      [] name = Name_Deprecated -> "Deprecated"
      [] name = Name_RuntimeVisibleAnnotations -> "RuntimeVisibleAnnotations"
      [] name = Name_RuntimeInvisibleAnnotations -> "RuntimeInvisibleAnnotations"
      [] name = Name_RuntimeVisibleParameterAnnotations -> "RuntimeVisibleParameterAnnotations"
      [] name = Name_RuntimeInvisibleParameterAnnotations -> "RuntimeInvisibleParameterAnnotations"
      [] name = Name_AnnotationDefault -> "AnnotationDefault"
      [] name = Name_BootstrapMethods -> "BootstrapMethods"
      [] OTHER -> "Misc"

\* The element type whose read_all decodes the body of a table attribute.
TableElement(kind) ==
    CASE kind = "StackMapTable" -> "StackMapTableAttribute"
      [] kind = "Exceptions" -> "ExceptionIndexAttribute"
      [] kind = "InnerClasses" -> "InnerClassAttribute"
      [] kind = "LineNumberTable" -> "LineNumberTableAttribute"
      [] kind = "LocalVariableTable" -> "LocalVariableTableAttribute"
      [] kind = "LocalVariableTypeTable" -> "LocalVariableTypeTableAttribute"
      [] kind \in {"RuntimeVisibleAnnotations", "RuntimeInvisibleAnnotations"} ->
           "AnnotationAttribute"
      [] kind \in {"RuntimeVisibleParameterAnnotations",
                   "RuntimeInvisibleParameterAnnotations"} ->
           "ParameterAnnotationAttribute"
      [] kind = "BootstrapMethods" -> "BootstrapMethodAttribute"
      [] OTHER -> "none"

\* The arms of the match in Attribute::read_one: the body decoder of a kind.
AttributeBody(kind, s, p, context) ==
    CASE kind = "ConstantValue" -> ConstantValueAttribute_read_one(s, p)
      [] kind = "Code" -> CodeAttribute_read_one(s, p, context)
      [] kind = "EnclosingMethod" -> EnclosingMethodAttribute_read_one(s, p)
      [] kind \in {"Synthetic", "Deprecated"} -> Ok(p, [kind |-> kind])
      [] kind = "Signature" -> SignatureAttribute_read_one(s, p)
      [] kind = "SourceFile" -> SourceFileAttribute_read_one(s, p)
      [] kind = "SourceDebugExtension" ->
           SourceDebugExtensionAttribute_read_one(s, p, context)
      [] kind = "AnnotationDefault" -> AnnotationDefaultAttribute_read_one(s, p, context)
      [] kind = "Misc" -> MiscAttribute_read_one(s, p, context)
      [] OTHER ->
           Then(read_all(TableElement(kind), s, p, context), LAMBDA items :
           Ok(items.pos, [kind |-> kind, items |-> items.val]))

\* One entry of the decode log: the header read, where the body started and
\* where the reader stood when the decode of this attribute ended.
AttributeEvent(name_index, length, kind, start, r) ==
    [name_index |-> name_index, length |-> length, kind |-> kind,
     start |-> start, end |-> r.pos, st |-> r.st, val |-> r.val]

\* A decode result with its own entry put at the end of its log.
Logged(name_index, length, kind, start, result) ==
    Let(result, LAMBDA r :
        [r EXCEPT !.log = @ \o <<AttributeEvent(name_index, length, kind, start, r)>>])

\* match &context.constant_pool[attribute_name_index] { Utf8 => Ok, _ => Err }
attribute_name(pool, attribute_name_index, p) ==
    Let(ConstantPool_index(pool, attribute_name_index), LAMBDA constant :
    IF constant.st # "ok" THEN Panic(p)
    ELSE IF constant.val.kind = "Utf8" THEN Ok(p, constant.val.bytes)
    ELSE ClassLoadingError(p, "Referenced attribute name should be an UTF-8 constant"))

Attribute_read_one(s, p, context) ==
    Then(read_u16(s, p), LAMBDA attribute_name_index :
    Then(read_u32(s, attribute_name_index.pos), LAMBDA attribute_length :
    Let(attribute_name(context.constant_pool, attribute_name_index.val,
                       attribute_length.pos),
        LAMBDA name :
    IF name.st # "ok"
    THEN Logged(attribute_name_index.val, as_usize(attribute_length.val), "none",
                attribute_length.pos, name)
    ELSE Logged(attribute_name_index.val, as_usize(attribute_length.val),
                AttributeKind(name.val), attribute_length.pos,
                AttributeBody(AttributeKind(name.val), s, attribute_length.pos,
                              AttributeContext(context.constant_pool,
                                               attribute_name_index.val,
                                               as_usize(attribute_length.val)))))))

\* ===========================================================================
\* CLASS FIELDS
\* ===========================================================================

\* A member decoder that looks the name up in the pool before it goes on.
\* C28 must tell this variant from MemberInfo_read_one.
MemberInfo_read_one_resolving(kind, flags, msg, s, p, context) ==
    Then(read_u16(s, p), LAMBDA access_flags :
    IF ~from_bits(flags, access_flags.val)
    THEN ClassLoadingError(access_flags.pos, msg)
    ELSE
    Then(read_u16(s, access_flags.pos), LAMBDA name_index :
    Then(attribute_name(context.constant_pool, name_index.val, name_index.pos),
         LAMBDA name :
    Then(read_u16(s, name_index.pos), LAMBDA descriptor_index :
    Then(read_all("Attribute", s, descriptor_index.pos, context), LAMBDA attributes :
    Ok(attributes.pos,
       [kind |-> kind,
        access_flags |-> access_flags.val,
        name_index |-> name_index.val,
        descriptor_index |-> descriptor_index.val,
        attributes |-> attributes.val]))))))

\* FieldInfo::read_one and MethodInfo::read_one differ in the flag set and the
\* error message only.
MemberInfo_read_one(kind, flags, msg, s, p, context) ==
    Then(read_u16(s, p), LAMBDA access_flags :
    IF ~from_bits(flags, access_flags.val)
    THEN ClassLoadingError(access_flags.pos, msg)
    ELSE
    Then(read_u16(s, access_flags.pos), LAMBDA name_index :
    Then(read_u16(s, name_index.pos), LAMBDA descriptor_index :
    Then(read_all("Attribute", s, descriptor_index.pos, context), LAMBDA attributes :
    Ok(attributes.pos,
       [kind |-> kind,
        access_flags |-> access_flags.val,
        name_index |-> name_index.val,
        descriptor_index |-> descriptor_index.val,
        attributes |-> attributes.val])))))

FieldInfo_read_one(s, p, context) ==
    MemberInfo_read_one("FieldInfo", FieldAccessFlags, "Invalid field access flags",
                        s, p, context)

MethodInfo_read_one(s, p, context) ==
    MemberInfo_read_one("MethodInfo", MethodAccessFlags, "Invalid method access flags",
                        s, p, context)

Interface_read_one(s, p) == U16Record("Interface", s, p, 1)

\* T::read_one(reader, context)
read_one(T, s, p, context) ==
    CASE T = "Constant" -> Constant_read_one(s, p)
      [] T = "Interface" -> Interface_read_one(s, p)
      [] T = "FieldInfo" -> FieldInfo_read_one(s, p, context)
      [] T = "MethodInfo" -> MethodInfo_read_one(s, p, context)
      [] T = "Attribute" -> Attribute_read_one(s, p, context)
      [] T = "ExceptionTableAttribute" -> ExceptionTableAttribute_read_one(s, p)
      [] T = "VerificationType" -> VerificationType_read_one(s, p)
      [] T = "StackMapTableAttribute" -> StackMapTableAttribute_read_one(s, p)
      [] T = "ExceptionIndexAttribute" -> ExceptionIndexAttribute_read_one(s, p)
      [] T = "InnerClassAttribute" -> InnerClassAttribute_read_one(s, p)
      [] T = "LineNumberTableAttribute" -> LineNumberTableAttribute_read_one(s, p)
      [] T = "LocalVariableTableAttribute" -> LocalVariableTableAttribute_read_one(s, p)
      [] T = "LocalVariableTypeTableAttribute" ->
           LocalVariableTypeTableAttribute_read_one(s, p)
      [] T = "ElementValue" -> ElementValue_read_one(s, p, context)
      [] T = "ElementValuePair" -> ElementValuePair_read_one(s, p, context)
      [] T = "AnnotationAttribute" -> AnnotationAttribute_read_one(s, p, context)
      [] T = "ParameterAnnotationAttribute" ->
           ParameterAnnotationAttribute_read_one(s, p, context)
      [] T = "BootstrapMethodAttribute" -> BootstrapMethodAttribute_read_one(s, p)

\* ===========================================================================
\* INPUTS
\* The byte sources the decoder is run on: class files assembled from a
\* declared pool count, a run of constants, the class header, counted members
\* and attributes, and surplus bytes.
\* ===========================================================================

\* Largest declared count, and most elements supplied, of a generated
\* counted collection.
MaxCount == 3

\* Largest number of constants in a generated pool.
MaxConstants == 3

\* Largest number of class-level attributes in a generated class.
MaxAttrs == 2

u16(n) == <<n \div 256, n % 256>>

u32(n) == <<0, 0>> \o u16(n)

RECURSIVE Flatten(_)
Flatten(ss) == IF ss = <<>> THEN <<>> ELSE Head(ss) \o Flatten(Tail(ss))

SeqsUpTo(S, n) == UNION {[1..k -> S] : k \in 0..n}

Utf8Bytes(bytes) == <<1>> \o u16(Len(bytes)) \o bytes

LongBytes == <<5, 1, 2, 3, 4, 5, 6, 7, 8>>

DoubleBytes == <<6, 64, 9, 33, 251, 84, 68, 45, 24>>

IntegerBytes == <<3, 0, 0, 0, 7>>

Name_MyCustom == <<77, 121, 67, 117, 115, 116, 111, 109>>

\* magic, minor 0, major 52
Header == <<202, 254, 186, 190>> \o u16(0) \o u16(52)

\* access SUPER, this_class 1, super_class 1, no interfaces
ClassHead == u16(33) \o u16(1) \o u16(1) \o u16(0)

\* no fields, no methods
NoMembers == u16(0) \o u16(0)

AttributeBytes(name_index, length, body) == u16(name_index) \o u32(length) \o body

Trailing == {[i \in 1..k |-> 0] : k \in 0..MaxTrailing}

\* Number of logical slots a run of encoded constants takes.
SlotsOf(cs) ==
    Len(cs) + Cardinality({i \in 1..Len(cs) : cs[i][1] \in {5, 6}})

\* Classes that differ in their pool: every run of at most MaxConstants
\* constants, declared with the count that ends after the last constant's
\* first slot or after its last slot.
PoolInputs ==
    {Header \o u16(count) \o Flatten(cs) \o ClassHead \o NoMembers \o u16(0) \o tr :
        <<cs, count, tr>> \in
            {<<c, n, x>> \in
                SeqsUpTo({Utf8Bytes(<<65>>), LongBytes, DoubleBytes, IntegerBytes},
                         MaxConstants)
                \X (0..(2 * MaxConstants + 1)) \X Trailing :
                    n \in {SlotsOf(c), SlotsOf(c) + 1}}}

\* The pool of the classes that differ in their attributes:
\*   1 "Synthetic"  2 "ConstantValue"  3 "LineNumberTable"  4 "Code"
\*   5 "MyCustom"   6 Integer          7-8 Long             9 "MyCustom"
NamePool ==
    u16(10) \o Utf8Bytes(Name_Synthetic) \o Utf8Bytes(Name_ConstantValue)
    \o Utf8Bytes(Name_LineNumberTable) \o Utf8Bytes(Name_Code)
    \o Utf8Bytes(Name_MyCustom) \o IntegerBytes \o LongBytes
    \o Utf8Bytes(Name_MyCustom)

LineNumbers == u16(2) \o u16(0) \o u16(10) \o u16(4) \o u16(11)

AttributeShapes ==
    { AttributeBytes(1, 0, <<>>),
      AttributeBytes(1, 1, <<0>>),
      AttributeBytes(2, 2, u16(6)),
      AttributeBytes(2, 4, u16(6) \o u16(0)),
      AttributeBytes(3, 10, LineNumbers),
      AttributeBytes(3, 2, u16(1)),
      AttributeBytes(5, 4, <<222, 173, 190, 239>>),
      AttributeBytes(5, 0, <<>>),
      AttributeBytes(6, 0, <<>>),
      AttributeBytes(0, 0, <<>>),
      AttributeBytes(8, 0, <<>>),
      AttributeBytes(9, 4, <<222, 173, 190, 239>>) }

AttributeInputs ==
    {Header \o NamePool \o ClassHead \o NoMembers \o u16(Len(as)) \o Flatten(as) \o tr :
        <<as, tr>> \in SeqsUpTo(AttributeShapes, MaxAttrs) \X Trailing}

\* Code: max_stack 1, max_locals 1, one byte of code (return), no exception
\* table, then the nested attributes given.
CodeBytes(n, nested) ==
    LET body == u16(1) \o u16(1) \o u32(1) \o <<177>> \o u16(0) \o u16(n) \o nested
    IN AttributeBytes(4, Len(body), body)

\* One member: access PUBLIC, name 5, descriptor 5, the attributes given.
MemberBytes(n, attrs) == u16(1) \o u16(5) \o u16(5) \o u16(n) \o attrs

\* Classes with one interface, one field and one method.
MemberInputs ==
    {Header \o NamePool \o u16(33) \o u16(1) \o u16(1) \o u16(1) \o u16(7)
        \o u16(1) \o f \o u16(1) \o m \o u16(0) :
        <<f, m>> \in
            { MemberBytes(1, AttributeBytes(2, 2, u16(6))),
              MemberBytes(1, AttributeBytes(6, 0, <<>>)),
              u16(32) \o u16(5) \o u16(5) \o u16(0) }
            \X
            { MemberBytes(1, CodeBytes(1, AttributeBytes(3, 10, LineNumbers))),
              MemberBytes(1, CodeBytes(1, AttributeBytes(6, 0, <<>>))),
              MemberBytes(1, CodeBytes(1, AttributeBytes(0, 0, <<>>))),
              MemberBytes(1, CodeBytes(2, AttributeBytes(3, 10, LineNumbers))),
              u16(16384) \o u16(5) \o u16(5) \o u16(0) }}

\* Sources that are not class files, or stop early.
BrokenInputs ==
    { <<>>, <<222, 173, 190, 239>>, <<222, 173, 190, 239, 0, 0>>, <<202, 254>>,
      <<202, 254, 186, 190>>, Header, Header \o <<0>>,
      Header \o u16(2) \o <<2, 0, 0>>,
      Header \o u16(2) \o Utf8Bytes(<<65>>) \o u16(32768),
      Header \o u16(2) \o Utf8Bytes(<<65>>) \o u16(33) \o u16(1),
      Header \o u16(2) \o Utf8Bytes(<<65>>) \o ClassHead,
      Header \o u16(2) \o Utf8Bytes(<<65>>) \o u16(33) \o u16(1) \o u16(1) \o u16(2)
          \o u16(1) }

\* First words that are the magic number or differ from it in one place or
\* in all, alone and followed by more bytes.
MagicWords ==
    { <<202, 254, 186, 190>>, <<202, 254, 186, 191>>, <<202, 254, 187, 190>>,
      <<202, 255, 186, 190>>, <<203, 254, 186, 190>>, <<0, 0, 0, 0>>,
      <<190, 186, 254, 202>>, <<202, 254, 0, 0>>, <<0, 0, 186, 190>> }

MagicInputs ==
    {m \o t : m \in MagicWords,
              t \in {<<>>, <<0>>,
                     u16(0) \o u16(52) \o u16(1) \o ClassHead \o NoMembers \o u16(0)}}

\* Most bits set in a generated access_flags value (the value with all
\* sixteen set is generated as well).
MaxFlagBits == 2

Scopes == {"class", "field", "method", "inner-class"}

RECURSIVE BitsValue(_)
BitsValue(bits) ==
    IF bits = {} THEN 0
    ELSE LET b == CHOOSE x \in bits : TRUE IN (2 ^ b) + BitsValue(bits \ {b})

FlagValues ==
    {BitsValue(bits) : bits \in {B \in SUBSET (0..15) : Cardinality(B) <= MaxFlagBits}}
    \cup {BitsValue(0..15)}

\* A class that is well formed but for the access_flags value v put in the
\* scope given: the class itself, its one field, its one method, or the one
\* entry of its InnerClasses attribute.
FlagInput(scope, v) ==
    CASE scope = "class" ->
           Header \o u16(1) \o u16(v) \o u16(1) \o u16(1) \o u16(0) \o NoMembers \o u16(0)
      [] scope = "field" ->
           Header \o u16(1) \o ClassHead \o u16(1) \o u16(v) \o u16(5) \o u16(5) \o u16(0)
               \o u16(0) \o u16(0)
      [] scope = "method" ->
           Header \o u16(1) \o ClassHead \o u16(0) \o u16(1) \o u16(v) \o u16(5) \o u16(5)
               \o u16(0) \o u16(0)
      [] scope = "inner-class" ->
           Header \o u16(2) \o Utf8Bytes(Name_InnerClasses) \o ClassHead \o NoMembers
               \o u16(1)
               \o AttributeBytes(1, 10, u16(1) \o u16(1) \o u16(2) \o u16(3) \o u16(v))

FlagCases ==
    {[scope |-> scope, v |-> v, bytes |-> FlagInput(scope, v)] :
        scope \in Scopes, v \in FlagValues}

FlagInputs == {c.bytes : c \in FlagCases}

\* Payloads of Utf8 constants: none, ASCII, a two-byte and a four-byte
\* character of standard UTF-8, the encoded null C0 80 alone and inside a
\* string, and U+1F600 as two three-byte surrogate halves.
Utf8Payloads ==
    { <<>>, <<72, 105>>, <<195, 169>>, <<240, 159, 152, 128>>, <<192, 128>>,
      <<65, 192, 128, 66>>, <<237, 160, 189, 237, 184, 128>> }

\* A class whose pool is the one Utf8 constant of the payload given.
Utf8Input(payload) ==
    Header \o u16(2) \o Utf8Bytes(payload) \o ClassHead \o NoMembers \o u16(0)

Utf8Inputs == {Utf8Input(payload) : payload \in Utf8Payloads}

\* A well-formed class with raw bytes of each sort: the pool 1 "Code",
\* 2 "SourceDebugExtension", 3 "MyCustom"; no field; one method with a Code
\* attribute of three bytes of code, one exception table entry and no nested
\* attribute; the class attributes SourceDebugExtension (three bytes) and
\* MyCustom (four bytes).
WholeClass ==
    Header
    \o u16(4) \o Utf8Bytes(Name_Code) \o Utf8Bytes(Name_SourceDebugExtension)
        \o Utf8Bytes(Name_MyCustom)
    \o ClassHead \o u16(0)
    \o u16(1) \o u16(1) \o u16(3) \o u16(3) \o u16(1)
        \o AttributeBytes(1, 23,
               u16(2) \o u16(1) \o u32(3) \o <<42, 183, 177>>
               \o u16(1) \o u16(0) \o u16(3) \o u16(3) \o u16(0) \o u16(0))
    \o u16(2) \o AttributeBytes(2, 3, <<83, 77, 65>>)
        \o AttributeBytes(3, 4, <<222, 173, 190, 239>>)

\* WholeClass and every source that ends before WholeClass does.
TruncatedInputs == {SubSeq(WholeClass, 1, k) : k \in 0..Len(WholeClass)}

\* The body of a well-formed Code attribute: max_stack 2, max_locals 1, c
\* bytes of code (1, 2, ..), e exception table entries (i, i + 1, i + 2, i)
\* and n nested attributes, each the LineNumberTable (0, 10), (4, 11).
CodeBody(c, e, n) ==
    u16(2) \o u16(1) \o u32(c) \o [i \in 1..c |-> i]
    \o u16(e) \o Flatten([i \in 1..e |-> u16(i) \o u16(i + 1) \o u16(i + 2) \o u16(i)])
    \o u16(n) \o Flatten([i \in 1..n |-> AttributeBytes(3, 10, LineNumbers)])

\* A class (pool NamePool) with one method whose one attribute is that Code
\* attribute, its length as declared.
CodeInput(c, e, n) ==
    Header \o NamePool \o ClassHead \o u16(0)
    \o u16(1) \o MemberBytes(1, AttributeBytes(4, Len(CodeBody(c, e, n)), CodeBody(c, e, n)))
    \o u16(0)

CodeCases == (0..MaxCount) \X (0..MaxCount) \X (0..MaxCount)

CodeInputs == {CodeInput(x[1], x[2], x[3]) : x \in CodeCases}

\* Pool indices that a reference may hold: 0, one inside the pool, and two
\* beyond it.
References == {0, 2, 999, 65535}

\* A class all of whose references are x: the pool 1 "ConstantValue",
\* 2 Class(x), 3 NameAndType(x, x), 4 String(x); this_class and super_class
\* x; the interface x; a field of name and descriptor x with the attribute
\* ConstantValue (name 1) of value index x; a method of name and descriptor x.
ReferenceInput(x) ==
    Header
    \o u16(5) \o Utf8Bytes(Name_ConstantValue) \o <<7>> \o u16(x)
        \o <<12>> \o u16(x) \o u16(x) \o <<8>> \o u16(x)
    \o u16(33) \o u16(x) \o u16(x)
    \o u16(1) \o u16(x)
    \o u16(1) \o u16(1) \o u16(x) \o u16(x) \o u16(1) \o AttributeBytes(1, 2, u16(x))
    \o u16(1) \o u16(1) \o u16(x) \o u16(x) \o u16(0)
    \o u16(0)

ReferenceInputs == {ReferenceInput(x) : x \in References}

Inputs ==
    PoolInputs \cup AttributeInputs \cup MemberInputs \cup BrokenInputs
    \cup MagicInputs \cup FlagInputs \cup Utf8Inputs \cup TruncatedInputs
    \cup CodeInputs \cup ReferenceInputs

\* ===========================================================================
\* CLASS (Class::read, one action per statement group of the function)
\* ===========================================================================

VARIABLES
    input,      \* the bytes behind the reader
    pos,        \* number of bytes the reader has handed out
    pc,         \* the statement of Class::read that runs next
    locals,     \* the let-bindings of Class::read made so far
    result,     \* "running", or how Class::read ended: "ok", "err", "panic"
    error,      \* details of the ClassLoadingError returned
    steps,      \* the statements that ran, in order
    failure,    \* the first read that did not return Ok
    attr_log,   \* the attribute decodes so far
    lookup,     \* the last constant_pool[index] a consumer evaluated
    history,    \* the parses this process has finished before the current one
    probe,      \* one decoder called on its own: its input and what it returned
    jar,        \* the call of load_jar: the archive, file_index, what it did
    other       \* the call of Class::read of a second thread, while it waits

vars ==
    <<input, pos, pc, locals, result, error, steps, failure, attr_log, lookup,
      history, probe, jar, other>>

\* 0xCAFEBABE
CLASS_MAGIC == [hi |-> 51966, lo |-> 47806]

NoLocals ==
    [minor_version |-> -1, major_version |-> -1, constant_pool |-> NoPool,
     access_flags |-> -1, this_class |-> -1, super_class |-> -1,
     interfaces |-> <<>>, fields |-> <<>>, methods |-> <<>>, attributes |-> <<>>]

NoFailure == [step |-> "none", st |-> "ok", err |-> "", pos |-> 0]

NoLookup == [index |-> -1, st |-> "none", val |-> NoVal]

\* No decoder is called on its own.
NoProbe == [T |-> "none", s |-> <<>>, r |-> [st |-> "none"]]

\* load_jar is not called.
NoJar ==
    [zip |-> <<>>, file_index |-> 0, result |-> "none", handed |-> <<>>,
     printed |-> <<>>]

\* There is no second thread.
NoThread == [pc |-> "none"]

Init ==
    /\ input \in Inputs
    /\ pos = 0
    /\ pc = "magic"
    /\ locals = NoLocals
    /\ result = "running"
    /\ error = ""
    /\ steps = <<>>
    /\ failure = NoFailure
    /\ attr_log = <<>>
    /\ lookup = NoLookup
    /\ history = <<>>
    /\ probe = NoProbe
    /\ jar = NoJar
    /\ other = NoThread

\* Class::read with the early return of `?` left out: an Err is recorded but
\* the next statement runs all the same. C10 must tell this variant from
\* Propagate.
Propagate_continue(r, next, bound) ==
    /\ steps' = Append(steps, pc)
    /\ pos' = r.pos
    /\ attr_log' = attr_log \o r.log
    /\ failure' = IF failure.step = "none" /\ r.st # "ok"
                  THEN [step |-> pc, st |-> r.st, err |-> r.err, pos |-> r.pos]
                  ELSE failure
    /\ pc' = next
    /\ locals' = bound
    /\ result' = IF next = "done" THEN "ok" ELSE result
    /\ error' = IF r.st = "ok" THEN error ELSE r.err
    /\ UNCHANGED <<input, lookup, history, probe, jar, other>>

\* The `?` after a read: Ok binds the value and falls through to the next
\* statement (after the last one, to `return Ok(Class {..})`), anything else
\* leaves Class::read at once.
Propagate(r, next, bound) ==
    /\ steps' = Append(steps, pc)
    /\ pos' = r.pos
    /\ attr_log' = attr_log \o r.log
    /\ failure' = IF failure.step = "none" /\ r.st # "ok"
                  THEN [step |-> pc, st |-> r.st, err |-> r.err, pos |-> r.pos]
                  ELSE failure
    /\ IF r.st = "ok"
       THEN /\ pc' = next
            /\ locals' = bound
            /\ result' = IF next = "done" THEN "ok" ELSE result
            /\ UNCHANGED error
       ELSE /\ pc' = "done"
            /\ result' = r.st
            /\ error' = r.err
            /\ UNCHANGED locals
    /\ UNCHANGED <<input, lookup, history, probe, jar, other>>

\* The magic check with only the upper half of the word compared. C11 must
\* tell this variant from magic_check.
magic_check_upper_half(s, p) ==
    Then(read_u32(s, p), LAMBDA magic :
    IF magic.val.hi # CLASS_MAGIC.hi
    THEN ClassLoadingError(magic.pos, "Magic header is not matching")
    ELSE Ok(magic.pos, magic.val))

magic_check(s, p) ==
    Then(read_u32(s, p), LAMBDA magic :
    IF magic.val # CLASS_MAGIC
    THEN ClassLoadingError(magic.pos, "Magic header is not matching")
    ELSE Ok(magic.pos, magic.val))

ReadMagic ==
    /\ pc = "magic"
    /\ Propagate(magic_check(input, pos), "version", locals)

ReadVersion ==
    /\ pc = "version"
    /\ \E r \in {read_u16s(input, pos, 2, <<>>)} :
       Propagate(r, "constant_pool",
                 IF r.st = "ok"
                 THEN [locals EXCEPT !.minor_version = r.val[1],
                                     !.major_version = r.val[2]]
                 ELSE locals)

ReadConstantPool ==
    /\ pc = "constant_pool"
    /\ \E r \in {ConstantPool_read_one(input, pos)} :
       Propagate(r, "access_flags",
                 IF r.st = "ok" THEN [locals EXCEPT !.constant_pool = r.val]
                 ELSE locals)

class_access_flags(s, p) ==
    Then(read_u16(s, p), LAMBDA access_flags :
    IF ~from_bits(ClassAccessFlags, access_flags.val)
    THEN ClassLoadingError(access_flags.pos, "Invalid class access flags")
    ELSE Ok(access_flags.pos, access_flags.val))

ReadAccessFlags ==
    /\ pc = "access_flags"
    /\ \E r \in {class_access_flags(input, pos)} :
       Propagate(r, "this_super",
                 IF r.st = "ok" THEN [locals EXCEPT !.access_flags = r.val]
                 ELSE locals)

ReadThisSuper ==
    /\ pc = "this_super"
    /\ \E r \in {read_u16s(input, pos, 2, <<>>)} :
       Propagate(r, "interfaces",
                 IF r.st = "ok"
                 THEN [locals EXCEPT !.this_class = r.val[1],
                                     !.super_class = r.val[2]]
                 ELSE locals)

ReadInterfaces ==
    /\ pc = "interfaces"
    /\ \E r \in {read_all("Interface", input, pos, EmptyContext)} :
       Propagate(r, "fields",
                 IF r.st = "ok" THEN [locals EXCEPT !.interfaces = r.val]
                 ELSE locals)

\* Class::read with the fields decoded under the empty context instead of the
\* context of the decoded pool. C9 must tell this variant from ReadFields.
ReadFields_EmptyContext ==
    /\ pc = "fields"
    /\ \E r \in {read_all("FieldInfo", input, pos, EmptyContext)} :
       Propagate(r, "methods",
                 IF r.st = "ok" THEN [locals EXCEPT !.fields = r.val]
                 ELSE locals)

ReadFields ==
    /\ pc = "fields"
    /\ \E r \in {read_all("FieldInfo", input, pos,
                         ConstantPoolContext(locals.constant_pool))} :
       Propagate(r, "methods",
                 IF r.st = "ok" THEN [locals EXCEPT !.fields = r.val]
                 ELSE locals)

ReadMethods ==
    /\ pc = "methods"
    /\ \E r \in {read_all("MethodInfo", input, pos,
                         ConstantPoolContext(locals.constant_pool))} :
       Propagate(r, "attributes",
                 IF r.st = "ok" THEN [locals EXCEPT !.methods = r.val]
                 ELSE locals)

ReadAttributes ==
    /\ pc = "attributes"
    /\ \E r \in {read_all("Attribute", input, pos,
                         ConstantPoolContext(locals.constant_pool))} :
       Propagate(r, "eof",
                 IF r.st = "ok" THEN [locals EXCEPT !.attributes = r.val]
                 ELSE locals)

\* let mut rest = Vec::new(); reader.read(&mut rest)?: the buffer handed to
\* read is the empty slice of the new vector, so read copies at most 0 bytes
\* and rest stays empty.
end_of_stream(s, p) ==
    LET room == 0
        got == IF Len(s) - p < room THEN Len(s) - p ELSE room
        rest == SubSeq(s, p + 1, p + got)
    IN IF rest # <<>>
       THEN ClassLoadingError(p + got, "Data is still present after reading class file")
       ELSE Ok(p + got, rest)

EndOfStream ==
    /\ pc = "eof"
    /\ Propagate(end_of_stream(input, pos), "done", locals)

\* An index operator that notes the indices it was asked for in the pool's
\* skip table. C23 must tell this variant from Index.
Index_noting(index) ==
    /\ pc = "done"
    /\ result = "ok"
    /\ \E r \in {ConstantPool_index(locals.constant_pool, index)} :
       /\ lookup' = [index |-> index, st |-> r.st, val |-> r.val]
       /\ result' = IF r.st = "panic" THEN "panic" ELSE result
    /\ locals' = [locals EXCEPT !.constant_pool.skip_table = Append(@, index)]
    /\ UNCHANGED <<input, pos, pc, error, steps, failure, attr_log,
                   history, probe, jar, other>>

\* A consumer of the returned Class evaluates constant_pool[index]; a panic
\* of the index operator ends the process.
Index(index) ==
    /\ pc = "done"
    /\ result = "ok"
    /\ \E r \in {ConstantPool_index(locals.constant_pool, index)} :
       /\ lookup' = [index |-> index, st |-> r.st, val |-> r.val]
       /\ result' = IF r.st = "panic" THEN "panic" ELSE result
    /\ UNCHANGED <<input, pos, pc, locals, error, steps, failure, attr_log,
                   history, probe, jar, other>>

Next ==
    \/ ReadMagic
    \/ ReadVersion
    \/ ReadConstantPool
    \/ ReadAccessFlags
    \/ ReadThisSuper
    \/ ReadInterfaces
    \/ ReadFields
    \/ ReadMethods
    \/ ReadAttributes
    \/ EndOfStream
    \/ \E index \in 0..MaxIndex : Index(index)

Spec == Init /\ [][Next]_vars

\* ===========================================================================
\* SEVERAL PARSES IN ONE PROCESS (load_jar)
\* ===========================================================================

\* Most parses one process runs.
MaxParses == 3

\* The class entries of the archive: a class without members, a class with
\* a field and a method that has a Code attribute, a file with a wrong first
\* word, a file that stops inside its header, a class with a field whose
\* access flags are refused.
RerunInputs ==
    { Header \o u16(1) \o ClassHead \o NoMembers \o u16(0),
      Header \o NamePool \o u16(33) \o u16(1) \o u16(1) \o u16(1) \o u16(7)
          \o u16(1) \o MemberBytes(1, AttributeBytes(2, 2, u16(6)))
          \o u16(1) \o MemberBytes(1, CodeBytes(1, AttributeBytes(3, 10, LineNumbers)))
          \o u16(0),
      <<202, 254, 186, 191>> \o u16(0) \o u16(52),
      Header \o u16(2) \o Utf8Bytes(<<65>>) \o u16(33) \o u16(1),
      FlagInput("field", 32) }

InitRerun ==
    /\ input \in RerunInputs
    /\ pos = 0
    /\ pc = "magic"
    /\ locals = NoLocals
    /\ result = "running"
    /\ error = ""
    /\ steps = <<>>
    /\ failure = NoFailure
    /\ attr_log = <<>>
    /\ lookup = NoLookup
    /\ history = <<>>
    /\ probe = NoProbe
    /\ jar = NoJar
    /\ other = NoThread

\* What a finished call of Class::read gave: the Class (the bindings that
\* make it up) or the error, and how far it read.
Outcome ==
    [input |-> input, result |-> result, error |-> error, class |-> locals,
     steps |-> steps, consumed |-> pos]

\* The loop of load_jar with the reader of the last entry handed to the next
\* call of Class::read. C20 must tell this variant from LoadNext.
LoadNext_same_reader ==
    /\ pc = "done"
    /\ result \in {"ok", "err"}
    /\ Len(history) < MaxParses - 1
    /\ history' = Append(history, Outcome)
    /\ input' \in RerunInputs
    /\ pc' = "magic"
    /\ locals' = NoLocals
    /\ result' = "running"
    /\ error' = ""
    /\ steps' = <<>>
    /\ failure' = NoFailure
    /\ attr_log' = <<>>
    /\ lookup' = NoLookup
    /\ UNCHANGED <<pos, probe, jar, other>>

\* The next turn of the loop of load_jar: the Class or the error of the last
\* call is dropped (the error is printed), zip.by_index gives a new reader at
\* the start of the next entry, and Class::read is called on it.
LoadNext ==
    /\ pc = "done"
    /\ result \in {"ok", "err"}
    /\ Len(history) < MaxParses - 1
    /\ history' = Append(history, Outcome)
    /\ input' \in RerunInputs
    /\ pos' = 0
    /\ pc' = "magic"
    /\ locals' = NoLocals
    /\ result' = "running"
    /\ error' = ""
    /\ steps' = <<>>
    /\ failure' = NoFailure
    /\ attr_log' = <<>>
    /\ lookup' = NoLookup
    /\ UNCHANGED <<probe, jar, other>>

NextRerun ==
    \/ ReadMagic
    \/ ReadVersion
    \/ ReadConstantPool
    \/ ReadAccessFlags
    \/ ReadThisSuper
    \/ ReadInterfaces
    \/ ReadFields
    \/ ReadMethods
    \/ ReadAttributes
    \/ EndOfStream
    \/ LoadNext

RerunSpec == InitRerun /\ [][NextRerun]_vars

\* ===========================================================================
\* TWO PARSES AT THE SAME TIME
\* A call of Class::read owns its reader (`reader: &mut R`) and its
\* let-bindings; the variables input .. attr_log are those of the thread that
\* runs, `other` holds those of the thread that waits.
\* ===========================================================================

\* The call of the running thread.
Running ==
    [input |-> input, pos |-> pos, pc |-> pc, locals |-> locals, result |-> result,
     error |-> error, steps |-> steps, failure |-> failure, attr_log |-> attr_log]

\* A call of Class::read on a new reader over `bytes`, before its first
\* statement.
NewCall(bytes) ==
    [input |-> bytes, pos |-> 0, pc |-> "magic", locals |-> NoLocals,
     result |-> "running", error |-> "", steps |-> <<>>, failure |-> NoFailure,
     attr_log |-> <<>>]

\* The thread of call t runs.
Resume(t) ==
    /\ input' = t.input
    /\ pos' = t.pos
    /\ pc' = t.pc
    /\ locals' = t.locals
    /\ result' = t.result
    /\ error' = t.error
    /\ steps' = t.steps
    /\ failure' = t.failure
    /\ attr_log' = t.attr_log

\* What the call t gave, as Outcome gives it for the running thread.
OutcomeOf(t) ==
    [input |-> t.input, result |-> t.result, error |-> t.error, class |-> t.locals,
     steps |-> t.steps, consumed |-> t.pos]

\* Two byte sources; the first is parsed alone from the start, the second
\* waits its turn.
InitConcurrent ==
    /\ input \in RerunInputs
    /\ pos = 0
    /\ pc = "magic"
    /\ locals = NoLocals
    /\ result = "running"
    /\ error = ""
    /\ steps = <<>>
    /\ failure = NoFailure
    /\ attr_log = <<>>
    /\ lookup = NoLookup
    /\ history = <<>>
    /\ probe = NoProbe
    /\ jar = NoJar
    /\ other \in {[NewCall(bytes) EXCEPT !.pc = "unborn"] : bytes \in RerunInputs}

\* A parse that ran alone has returned and what it gave is kept: after the
\* first source the second is parsed alone, after the second both are parsed
\* again, each by a thread of its own.
Alone ==
    /\ pc = "done"
    /\ Len(history) < 2
    /\ history' = Append(history, Outcome)
    /\ IF history = <<>>
       THEN /\ Resume(NewCall(other.input))
            /\ UNCHANGED other
       ELSE /\ Resume(NewCall(history[1].input))
            /\ other' = NewCall(other.input)
    /\ UNCHANGED <<lookup, probe, jar>>

\* A switch of threads that leaves the reader where it is: the two calls
\* read through one reader. C22 must tell this variant from Yield.
Yield_one_reader ==
    /\ Len(history) = 2
    /\ other' = Running
    /\ input' = other.input
    /\ pc' = other.pc
    /\ locals' = other.locals
    /\ result' = other.result
    /\ error' = other.error
    /\ steps' = other.steps
    /\ failure' = other.failure
    /\ attr_log' = other.attr_log
    /\ UNCHANGED <<pos, lookup, history, probe, jar>>

\* The scheduler takes the processor from the running thread, between two
\* statements of Class::read, and gives it to the other.
Yield ==
    /\ Len(history) = 2
    /\ other' = Running
    /\ Resume(other)
    /\ UNCHANGED <<lookup, history, probe, jar>>

NextConcurrent ==
    \/ ReadMagic
    \/ ReadVersion
    \/ ReadConstantPool
    \/ ReadAccessFlags
    \/ ReadThisSuper
    \/ ReadInterfaces
    \/ ReadFields
    \/ ReadMethods
    \/ ReadAttributes
    \/ EndOfStream
    \/ Alone
    \/ Yield

ConcurrentSpec == InitConcurrent /\ [][NextConcurrent]_vars

\* ===========================================================================
\* THE ARCHIVE WALK (is_class_file, load_jar)
\* An entry name is the sequence of its characters.
\* ===========================================================================

\* Most entries in a generated archive.
MaxEntries == 3

None == [some |-> FALSE, val |-> <<>>]

Some(v) == [some |-> TRUE, val |-> v]

\* Path::components: the parts of the path between '/', the empty parts and
\* the "." parts left out (a trailing '/' makes no part).
RECURSIVE components(_, _, _)
components(path, part, parts) ==
    IF path = <<>>
    THEN IF part \in {<<>>, <<".">>} THEN parts ELSE Append(parts, part)
    ELSE IF Head(path) = "/"
    THEN components(Tail(path), <<>>,
                    IF part \in {<<>>, <<".">>} THEN parts ELSE Append(parts, part))
    ELSE components(Tail(path), Append(part, Head(path)), parts)

\* Path::file_name: the last part, unless there is none or it is "..".
file_name(path) ==
    Let(components(path, <<>>, <<>>), LAMBDA parts :
    IF parts = <<>> \/ parts[Len(parts)] = <<".", ".">>
    THEN None
    ELSE Some(parts[Len(parts)]))

\* The place of the last '.' in file, 0 when it has none.
LastDot(file) ==
    IF \E i \in 1..Len(file) : file[i] = "."
    THEN CHOOSE i \in 1..Len(file) :
             file[i] = "." /\ \A j \in (i + 1)..Len(file) : file[j] # "."
    ELSE 0

\* Path::extension: what follows the last '.' of the file name; none when the
\* file name has no '.', or only the one it starts with.
extension(path) ==
    Let(file_name(path), LAMBDA file :
    IF ~file.some THEN None
    ELSE Let(LastDot(file.val), LAMBDA dot :
         IF dot <= 1 THEN None
         ELSE Some(SubSeq(file.val, dot + 1, Len(file.val)))))

is_class_file(path) == extension(path) = Some(<<"c", "l", "a", "s", "s">>)

\* A class without members, and a file with a wrong first word.
GoodClass == Header \o u16(1) \o ClassHead \o NoMembers \o u16(0)

BadClass == <<202, 254, 186, 191>> \o u16(0) \o u16(52)

\* The entries of the generated archives: A.class (a class, and a file that
\* is none), p/.class, the directory A.class/, A.txt, and an entry that
\* by_index cannot open.
Entries ==
    { [name |-> <<"A", ".", "c", "l", "a", "s", "s">>, bytes |-> GoodClass, opens |-> TRUE],
      [name |-> <<"A", ".", "c", "l", "a", "s", "s">>, bytes |-> BadClass, opens |-> TRUE],
      [name |-> <<"p", "/", ".", "c", "l", "a", "s", "s">>, bytes |-> GoodClass,
       opens |-> TRUE],
      [name |-> <<"A", ".", "c", "l", "a", "s", "s", "/">>, bytes |-> <<>>,
       opens |-> TRUE],
      [name |-> <<"A", ".", "t", "x", "t">>, bytes |-> GoodClass, opens |-> TRUE],
      [name |-> <<"B", ".", "c", "l", "a", "s", "s">>, bytes |-> GoodClass,
       opens |-> FALSE] }

\* After `let mut zip = zip::ZipArchive::new(reader)?`.
InitJar ==
    /\ input = <<>>
    /\ pos = 0
    /\ pc = "idle"
    /\ locals = NoLocals
    /\ result = "running"
    /\ error = ""
    /\ steps = <<>>
    /\ failure = NoFailure
    /\ attr_log = <<>>
    /\ lookup = NoLookup
    /\ history = <<>>
    /\ probe = NoProbe
    /\ jar \in {[zip |-> zip, file_index |-> 0, result |-> "walking",
                 handed |-> <<>>, printed |-> <<>>] :
                    zip \in UNION {[1..n -> Entries] : n \in 0..MaxEntries}}
    /\ other = NoThread

\* The call of Class::read on the entry's reader begins.
CallRead(file) ==
    /\ input' = file.bytes
    /\ pos' = 0
    /\ pc' = "magic"
    /\ locals' = NoLocals
    /\ result' = "running"
    /\ error' = ""
    /\ steps' = <<>>
    /\ failure' = NoFailure
    /\ attr_log' = <<>>
    /\ UNCHANGED <<lookup, history, probe, other>>

\* The head of the loop of load_jar with an entry that cannot be opened
\* passed over. C30 must tell this variant from ByIndex.
ByIndex_pass_over ==
    /\ jar.result = "walking"
    /\ pc = "idle"
    /\ jar.file_index < Len(jar.zip)
    /\ \E file \in {jar.zip[jar.file_index + 1]} :
       IF ~file.opens \/ ~is_class_file(file.name)
       THEN /\ jar' = [jar EXCEPT !.file_index = @ + 1]
            /\ UNCHANGED <<input, pos, pc, locals, result, error, steps, failure,
                           attr_log, lookup, history, probe, other>>
       ELSE /\ jar' = [jar EXCEPT !.handed = Append(@, jar.file_index),
                                  !.printed = Append(@, "Reading class")]
            /\ CallRead(file)

\* The head of the loop of load_jar: zip.by_index(file_index)? leaves
\* load_jar with the error; an entry that is no class file is passed over; a
\* class file is announced and handed to Class::read.
ByIndex ==
    /\ jar.result = "walking"
    /\ pc = "idle"
    /\ jar.file_index < Len(jar.zip)
    /\ \E file \in {jar.zip[jar.file_index + 1]} :
       IF ~file.opens
       THEN /\ jar' = [jar EXCEPT !.result = "err"]
            /\ UNCHANGED <<input, pos, pc, locals, result, error, steps, failure,
                           attr_log, lookup, history, probe, other>>
       ELSE IF ~is_class_file(file.name)
       THEN /\ jar' = [jar EXCEPT !.file_index = @ + 1]
            /\ UNCHANGED <<input, pos, pc, locals, result, error, steps, failure,
                           attr_log, lookup, history, probe, other>>
       ELSE /\ jar' = [jar EXCEPT !.handed = Append(@, jar.file_index),
                                  !.printed = Append(@, "Reading class")]
            /\ CallRead(file)

\* match Class::read(&mut file) { Ok(_) => (), Err(error) => println!(..) },
\* and the loop goes to the next index.
Matched ==
    /\ jar.result = "walking"
    /\ pc = "done"
    /\ result \in {"ok", "err"}
    /\ jar' = [jar EXCEPT !.file_index = @ + 1,
                          !.printed = IF result = "err" THEN Append(@, error) ELSE @]
    /\ pc' = "idle"
    /\ UNCHANGED <<input, pos, locals, result, error, steps, failure, attr_log,
                   lookup, history, probe, other>>

\* The loop is over: Ok(()).
WalkDone ==
    /\ jar.result = "walking"
    /\ pc = "idle"
    /\ jar.file_index = Len(jar.zip)
    /\ jar' = [jar EXCEPT !.result = "ok"]
    /\ UNCHANGED <<input, pos, pc, locals, result, error, steps, failure, attr_log,
                   lookup, history, probe, other>>

NextJar ==
    \/ ByIndex
    \/ ReadMagic
    \/ ReadVersion
    \/ ReadConstantPool
    \/ ReadAccessFlags
    \/ ReadThisSuper
    \/ ReadInterfaces
    \/ ReadFields
    \/ ReadMethods
    \/ ReadAttributes
    \/ EndOfStream
    \/ Matched
    \/ WalkDone

JarSpec == InitJar /\ [][NextJar]_vars

\* ===========================================================================
\* DECODERS CALLED ON THEIR OWN
\* One read_one or read_all call on a reader over the bytes probe.s.
\* ===========================================================================

\* Longest run of payload bytes put behind a constant tag.
MaxPayload == 9

\* k payload bytes: as a Utf8 payload, length 2 and its two bytes; as a
\* numeric or reference payload, bytes that all differ.
Payload(k) == [i \in 1..k |-> IF i = 1 THEN 0 ELSE IF i = 2 THEN 2 ELSE 60 + i]

Pending == [st |-> "none"]

ProbeOf(T, s) == [T |-> T, s |-> s, r |-> Pending]

ConstantProbes ==
    {ProbeOf("Constant", <<t>> \o Payload(k)) : t \in 0..255, k \in 0..MaxPayload}

VerificationTypeProbes ==
    {ProbeOf("VerificationType", <<t>> \o Payload(k)) :
        t \in 0..255, k \in 0..MaxPayload}

\* Most frames put in one StackMapTable body.
MaxFrames == 2

\* A well-formed rest of the frame that starts with byte t, of no more bytes
\* than the frame needs: offset_delta 3 where there is one, then the
\* verification types Object(9); Integer; Float, Object(9), Top (as many as
\* an Append frame takes); Integer, Uninitialized(4) and Long.
FrameTail(t) ==
    CASE t \in 64..127 -> <<7, 0, 9>>
      [] t = 247 -> <<0, 3, 1>>
      [] t \in 248..251 -> <<0, 3>>
      [] t = 252 -> <<0, 3, 2>>
      [] t = 253 -> <<0, 3, 2, 7, 0, 9>>
      [] t = 254 -> <<0, 3, 2, 7, 0, 9, 0>>
      [] t = 255 -> <<0, 3, 0, 2, 1, 8, 0, 4, 0, 1, 4>>
      [] OTHER -> <<>>

\* Same frames with offset_delta 10, 11, ..
SameFrames(n) == [i \in 1..n |-> 9 + i]

\* A table of one frame, whole or cut short, and tables of a frame followed
\* by Same frames.
StackMapTableProbes ==
    {ProbeOf("StackMapTable", u16(1) \o <<t>> \o SubSeq(FrameTail(t), 1, k)) :
        <<t, k>> \in {<<a, b>> \in (0..255) \X (0..11) : b <= Len(FrameTail(a))}}
    \cup
    {ProbeOf("StackMapTable", u16(n) \o <<t>> \o FrameTail(t) \o SameFrames(m)) :
        <<t, n, m>> \in {<<a, b, c>> \in (0..255) \X (2..MaxFrames) \X (0..(MaxFrames - 1)) :
                            c \in {b - 2, b - 1}}}

\* Deepest nesting of the element value under test.
MaxDepth == 2

\* What an element value may be nested in: an array of one value, or an
\* annotation (type_index 3) of one pair (element_name_index 4).
Wrappers == {"array", "annotation"}

Paths == UNION {[1..d -> Wrappers] : d \in 0..MaxDepth}

WrapperBytes(w) == IF w = "array" THEN <<91, 0, 1>> ELSE <<64, 0, 3, 0, 1, 0, 4>>

RECURSIVE PathBytes(_)
PathBytes(path) ==
    IF path = <<>> THEN <<>> ELSE WrapperBytes(Head(path)) \o PathBytes(Tail(path))

\* A well-formed rest of the element value that starts with tag t: index 5
\* for a constant, 1 and 2 for an enum, 7 for a class, an annotation of type
\* 8 with the pair (4, 'I' 5), an array of 'I' 5 and 's' 6.
ElementTail(t) ==
    CASE t \in {66, 67, 68, 70, 73, 74, 83, 90, 115} -> <<0, 5>>
      [] t = 101 -> <<0, 1, 0, 2>>
      [] t = 99 -> <<0, 7>>
      [] t = 64 -> <<0, 8, 0, 1, 0, 4, 73, 0, 5>>
      [] t = 91 -> <<0, 2, 73, 0, 5, 115, 0, 6>>
      [] OTHER -> <<>>

ElementBytes(path, t) == PathBytes(path) \o <<t>> \o ElementTail(t)

\* Every tag at every path, whole and with its last byte missing.
ElementValueProbes ==
    {ProbeOf("ElementValue", ElementBytes(path, t)) : path \in Paths, t \in 0..255}
    \cup
    {ProbeOf("ElementValue",
             SubSeq(ElementBytes(path, t), 1, Len(ElementBytes(path, t)) - 1)) :
        path \in Paths, t \in 0..255}

\* The element types of the counted collections other than the pool.
CountedTypes ==
    {"Interface", "FieldInfo", "MethodInfo", "Attribute", "ExceptionTableAttribute",
     "LineNumberTableAttribute", "LocalVariableTableAttribute",
     "LocalVariableTypeTableAttribute", "AnnotationAttribute",
     "ParameterAnnotationAttribute", "ElementValuePair", "StackMapTableAttribute",
     "BootstrapMethodAttribute"}

\* The i-th element of a generated collection; i is written into its fields,
\* so that no two elements of a collection are the same. A member has no
\* attributes, an attribute is MyCustom (name 1) with the one byte i, an
\* annotation has the one pair (4, 'I' i), a frame is a Chop frame, a
\* bootstrap method has the i arguments 1..i.
Element(T, i) ==
    CASE T = "Interface" -> u16(i)
      [] T \in {"FieldInfo", "MethodInfo"} -> u16(1) \o u16(i) \o u16(i) \o u16(0)
      [] T = "Attribute" -> AttributeBytes(1, 1, <<i>>)
      [] T = "ExceptionTableAttribute" -> u16(i) \o u16(i) \o u16(i) \o u16(i)
      [] T = "LineNumberTableAttribute" -> u16(i) \o u16(i)
      [] T \in {"LocalVariableTableAttribute", "LocalVariableTypeTableAttribute"} ->
           u16(i) \o u16(i) \o u16(i) \o u16(i) \o u16(i)
      [] T = "AnnotationAttribute" -> u16(i) \o u16(1) \o u16(4) \o <<73>> \o u16(i)
      [] T = "ParameterAnnotationAttribute" ->
           u16(1) \o u16(i) \o u16(1) \o u16(4) \o <<73>> \o u16(i)
      [] T = "ElementValuePair" -> u16(i) \o <<115>> \o u16(i)
      [] T = "StackMapTableAttribute" -> <<248>> \o u16(i)
      [] T = "BootstrapMethodAttribute" ->
           u16(i) \o u16(i) \o Flatten([j \in 1..i |-> u16(j)])

\* The declared count as the collection writes it.
CountBytes(T, n) == IF T = "ParameterAnnotationAttribute" THEN <<n>> ELSE u16(n)

\* Declared count n, then the first k elements, the last `cut` bytes missing.
CountedBytes(T, n, k, cut) ==
    LET all == CountBytes(T, n) \o Flatten([i \in 1..k |-> Element(T, i)])
    IN SubSeq(all, 1, Len(all) - cut)

CountedCases ==
    {c \in [T : CountedTypes, n : 0..MaxCount, k : 0..MaxCount, cut : {0, 1}] :
        c.cut = 1 => c.k > 0}

CountedProbes == {ProbeOf(c.T, CountedBytes(c.T, c.n, c.k, c.cut)) : c \in CountedCases}

\* Most parameters in a generated parameter-annotations body, and most
\* annotations of one parameter.
MaxParameters == 2

MaxAnnotations == 2

ParameterAnnotationKinds ==
    {"RuntimeVisibleParameterAnnotations", "RuntimeInvisibleParameterAnnotations"}

\* The annotation of type n with the one pair (4, 'I' n).
AnnotationBytes(n) == u16(n) \o u16(1) \o u16(4) \o <<73>> \o u16(n)

\* The annotations of parameter i, of which there are m: a u16 count and the
\* annotations of type 10 i + 1 .. 10 i + m.
ParameterBytes(i, m) ==
    u16(m) \o Flatten([j \in 1..m |-> AnnotationBytes(10 * i + j)])

\* A body of Len(ms) parameters, the i-th with ms[i] annotations, behind a
\* counter of one byte.
ParametersBody(ms) ==
    <<Len(ms)>> \o Flatten([i \in 1..Len(ms) |-> ParameterBytes(i, ms[i])])

\* A body of k annotations right behind a counter of one byte.
FlatBody(k) == <<k>> \o Flatten([j \in 1..k |-> AnnotationBytes(j)])

ParameterCounts == SeqsUpTo(0..MaxAnnotations, MaxParameters)

ParameterAnnotationProbes ==
    {ProbeOf(kind, ParametersBody(ms)) :
        kind \in ParameterAnnotationKinds, ms \in ParameterCounts}
    \cup
    {ProbeOf(kind, FlatBody(k)) :
        kind \in ParameterAnnotationKinds, k \in 0..MaxParameters}

Probes ==
    ConstantProbes \cup VerificationTypeProbes \cup StackMapTableProbes
        \cup ElementValueProbes \cup CountedProbes \cup ParameterAnnotationProbes

InitDecode ==
    /\ input = <<>>
    /\ pos = 0
    /\ pc = "idle"
    /\ locals = NoLocals
    /\ result = "running"
    /\ error = ""
    /\ steps = <<>>
    /\ failure = NoFailure
    /\ attr_log = <<>>
    /\ lookup = NoLookup
    /\ history = <<>>
    /\ probe \in Probes
    /\ jar = NoJar
    /\ other = NoThread

\* The call returns: r is what the caller gets.
Return(r) ==
    /\ probe' = [probe EXCEPT !.r = r]
    /\ UNCHANGED <<input, pos, pc, locals, result, error, steps, failure, attr_log,
                   lookup, history, jar, other>>

DecodeConstant ==
    /\ probe.T = "Constant"
    /\ probe.r = Pending
    /\ \E r \in {Constant_read_one(probe.s, 0)} : Return(r)

DecodeVerificationType ==
    /\ probe.T = "VerificationType"
    /\ probe.r = Pending
    /\ \E r \in {VerificationType_read_one(probe.s, 0)} : Return(r)

\* The "StackMapTable" arm of Attribute::read_one: the body is read_all of
\* the frames.
DecodeStackMapTable ==
    /\ probe.T = "StackMapTable"
    /\ probe.r = Pending
    /\ \E r \in {read_all("StackMapTableAttribute", probe.s, 0,
                         AttributeContext(NoPool, 0, Len(probe.s)))} : Return(r)

\* ElementValue::read_one on its own (the body of AnnotationDefault).
DecodeElementValue ==
    /\ probe.T = "ElementValue"
    /\ probe.r = Pending
    /\ \E r \in {ElementValue_read_one(probe.s, 0,
                     AttributeContext(NoPool, 0, Len(probe.s)))} : Return(r)

\* The pool behind the collections decoded on their own: 1 "MyCustom".
CountedPool ==
    [constants |-> <<[kind |-> "Utf8", bytes |-> <<77, 121, 67, 117, 115, 116, 111, 109>>]>>,
     skip_table |-> <<>>]

\* T::read_all(reader, context) with the context its caller passes: the
\* empty one for interfaces, the pool for members and attributes, the
\* enclosing attribute's for the tables.
DecodeCounted ==
    /\ probe.T \in CountedTypes
    /\ probe.r = Pending
    /\ \E r \in {read_all(probe.T, probe.s, 0,
                     IF probe.T = "Interface" THEN EmptyContext
                     ELSE IF probe.T \in {"FieldInfo", "MethodInfo", "Attribute"}
                     THEN ConstantPoolContext(CountedPool)
                     ELSE AttributeContext(CountedPool, 1, Len(probe.s)))} :
       Return([st |-> r.st, pos |-> r.pos, val |-> r.val, err |-> r.err])

\* The "RuntimeVisibleParameterAnnotations" and
\* "RuntimeInvisibleParameterAnnotations" arms of Attribute::read_one.
DecodeParameterAnnotations ==
    /\ probe.T \in ParameterAnnotationKinds
    /\ probe.r = Pending
    /\ \E r \in {AttributeBody(probe.T, probe.s, 0,
                     AttributeContext(NoPool, 1, Len(probe.s)))} :
       Return([st |-> r.st, pos |-> r.pos, val |-> r.val, err |-> r.err])

NextDecode ==
    \/ DecodeConstant
    \/ DecodeParameterAnnotations
    \/ DecodeCounted
    \/ DecodeElementValue
    \/ DecodeStackMapTable
    \/ DecodeVerificationType

DecodeSpec == InitDecode /\ [][NextDecode]_vars

\* ===========================================================================
\* THE READ LOOP, ONE TURN AT A TIME (ReadAll::read_all_from)
\* probe.T is the element type of the collection read from probe.s; probe.r
\* holds the loop's variables while the loop runs and what the call returned
\* after it.
\* ===========================================================================

\* The element types whose collections are read one turn at a time.
LoopTypes == CountedTypes \cup {"Constant", "ElementValue"}

\* The pool behind the collections read one turn at a time:
\* 1 to 3 "MyCustom", 4 "Code".
LoopPool ==
    [constants |-> <<[kind |-> "Utf8", bytes |-> Name_MyCustom],
                     [kind |-> "Utf8", bytes |-> Name_MyCustom],
                     [kind |-> "Utf8", bytes |-> Name_MyCustom],
                     [kind |-> "Utf8", bytes |-> Name_Code]>>,
     skip_table |-> <<>>]

\* The context the caller of read_all passes for a collection of T.
LoopContext(T, s) ==
    IF T \in {"Interface", "Constant"} THEN EmptyContext
    ELSE IF T \in {"FieldInfo", "MethodInfo", "Attribute"}
    THEN ConstantPoolContext(LoopPool)
    ELSE AttributeContext(LoopPool, 1, Len(s))

\* ConstantPool::read_one starts the pool at 1, read_all everything else at 0.
LoopFrom(T) == IF T = "Constant" THEN 1 ELSE 0

\* Pools of every declared count over every run of at most MaxConstants
\* constants, the lists of CountedProbes, lists of nested element values,
\* attribute lists with a Code attribute inside a Code attribute, and lists
\* that declare more elements than there are bytes.
LoopProbes ==
    {ProbeOf("Constant", u16(n) \o Flatten(cs)) :
        <<cs, n>> \in SeqsUpTo({Utf8Bytes(<<65>>), LongBytes, IntegerBytes}, MaxConstants)
                      \X (0..(2 * MaxConstants + 1))}
    \cup CountedProbes
    \cup {ProbeOf("ElementValue", u16(n) \o ElementBytes(path, t) \o ElementBytes(<<>>, 73)) :
            <<n, path, t>> \in (0..2) \X Paths \X {64, 73, 91, 0}}
    \cup {ProbeOf("Attribute", u16(n) \o CodeBytes(k, nested) \o AttributeBytes(1, 1, <<9>>)) :
            <<n, k, nested>> \in (0..2) \X (0..1)
                \X {<<>>, AttributeBytes(1, 1, <<8>>),
                    CodeBytes(1, AttributeBytes(1, 1, <<7>>)), CodeBytes(0, <<>>)}}
    \cup {ProbeOf(T, <<255, 255>>) : T \in LoopTypes}

\* Whole files for Class::read: the class entries of the archive and every
\* prefix of a class with a method.
LoopInputs == RerunInputs \cup TruncatedInputs

InitLoop ==
    /\ \/ /\ input = <<>>
          /\ pc = "idle"
          /\ probe \in LoopProbes
       \/ /\ input \in LoopInputs
          /\ pc = "magic"
          /\ probe = NoProbe
    /\ pos = 0
    /\ locals = NoLocals
    /\ result = "running"
    /\ error = ""
    /\ steps = <<>>
    /\ failure = NoFailure
    /\ attr_log = <<>>
    /\ lookup = NoLookup
    /\ history = <<>>
    /\ jar = NoJar
    /\ other = NoThread

\* let count = Self::read_count(reader)?; let mut elements = ..;
\* let mut index: usize = from;
LoopEnter ==
    /\ probe.T \in LoopTypes
    /\ probe.r = Pending
    /\ \E count \in {read_count(probe.T, probe.s, 0)} :
       IF count.st # "ok"
       THEN Return([st |-> count.st, pos |-> count.pos, val |-> count.val,
                    err |-> count.err])
       ELSE Return([st |-> "loop", index |-> LoopFrom(probe.T), count |-> count.val,
                    pos |-> count.pos, val |-> <<>>, turns |-> 0])

\* A turn that leaves `index += 1 + skip` at `index += skip`. C29 must tell
\* this variant from LoopTurn.
LoopTurn_no_advance ==
    /\ probe.T \in LoopTypes
    /\ probe.r.st = "loop"
    /\ probe.r.index < probe.r.count
    /\ \E element \in {read_one(probe.T, probe.s, probe.r.pos,
                                LoopContext(probe.T, probe.s))} :
       IF element.st # "ok"
       THEN Return([st |-> element.st, pos |-> element.pos, val |-> element.val,
                    err |-> element.err])
       ELSE Return([probe.r EXCEPT
                       !.index = @ + skip_amount(probe.T, element.val),
                       !.pos = element.pos,
                       !.val = Append(@, element.val),
                       !.turns = @ + 1])

\* One turn of `while index < count`: read_one with `?`, skip_amount,
\* index += 1 + skip, push.
LoopTurn ==
    /\ probe.T \in LoopTypes
    /\ probe.r.st = "loop"
    /\ probe.r.index < probe.r.count
    /\ \E element \in {read_one(probe.T, probe.s, probe.r.pos,
                                LoopContext(probe.T, probe.s))} :
       IF element.st # "ok"
       THEN Return([st |-> element.st, pos |-> element.pos, val |-> element.val,
                    err |-> element.err])
       ELSE Return([probe.r EXCEPT
                       !.index = @ + 1 + skip_amount(probe.T, element.val),
                       !.pos = element.pos,
                       !.val = Append(@, element.val),
                       !.turns = @ + 1])

\* The loop condition is false: Ok(elements).
LoopExit ==
    /\ probe.T \in LoopTypes
    /\ probe.r.st = "loop"
    /\ ~(probe.r.index < probe.r.count)
    /\ Return([st |-> "ok", pos |-> probe.r.pos, val |-> probe.r.val, err |-> ""])

NextLoop ==
    \/ ReadMagic
    \/ ReadVersion
    \/ ReadConstantPool
    \/ ReadAccessFlags
    \/ ReadThisSuper
    \/ ReadInterfaces
    \/ ReadFields
    \/ ReadMethods
    \/ ReadAttributes
    \/ EndOfStream
    \/ LoopEnter
    \/ LoopTurn
    \/ LoopExit

\* The one thread of the call runs until the call returns: a step that can
\* be taken is taken.
LoopSpec == InitLoop /\ [][NextLoop]_vars /\ WF_vars(NextLoop)

\* ===========================================================================
\* THE LOGICAL CONSTANT POOL
\* ===========================================================================
\* The class-file numbering of a decoded pool: constant k of the stored
\* sequence sits at logical index k plus the number of Long/Double constants
\* stored before it, and a Long/Double also occupies the index after its own.

IsWide(constant) == constant.kind \in {"Long", "Double"}

WideBelow(constants, k) ==
    Cardinality({j \in 1..(k - 1) : IsWide(constants[j])})

FirstSlot(constants, k) == k + WideBelow(constants, k)

LogicalLength(pool) ==
    Len(pool.constants) + WideBelow(pool.constants, Len(pool.constants) + 1)

IsFirstSlot(pool, i) ==
    \E k \in 1..Len(pool.constants) : FirstSlot(pool.constants, k) = i

IsSecondSlot(pool, i) ==
    \E k \in 1..Len(pool.constants) :
        IsWide(pool.constants[k]) /\ FirstSlot(pool.constants, k) + 1 = i

ConstantAt(pool, i) ==
    pool.constants[CHOOSE k \in 1..Len(pool.constants) :
                       FirstSlot(pool.constants, k) = i]

\* The count the class file declares for its pool (the u16 after the version).
DeclaredCount == read_u16(input, 8).val

\* The constant pool step of Class::read has returned Ok.
PoolDecoded ==
    /\ Len(steps) >= 3
    /\ failure.step \notin {"magic", "version", "constant_pool"}

\* ===========================================================================
\* PROPERTIES
\* ===========================================================================

\* C1: for a logical index i that is the first slot of a stored constant,
\* constant_pool[i] returns that constant (the one at physical offset i - 1
\* minus the number of Long/Double constants stored below i).
C1_IndexReturnsFirstSlotConstant ==
    (lookup.st # "none" /\ IsFirstSlot(locals.constant_pool, lookup.index))
        => /\ lookup.st = "ok"
           /\ lookup.val = ConstantAt(locals.constant_pool, lookup.index)

\* C2: for i in 1..logical length, constant_pool[i] succeeds exactly when i is
\* not the second slot of a Long/Double; on a second slot it fails with an
\* InvalidPoolIndex error value.
C2_IndexFailsOnSecondSlot ==
    (lookup.st # "none" /\ lookup.index \in 1..LogicalLength(locals.constant_pool))
        => IF IsSecondSlot(locals.constant_pool, lookup.index)
           THEN lookup.st = "err"
           ELSE lookup.st = "ok"

\* C3: constant_pool[0] and constant_pool[i] for i above the logical length
\* fail with an InvalidPoolIndex error value; they neither abort nor return a
\* constant.
C3_IndexOutOfRangeIsError ==
    (lookup.st # "none"
     /\ (lookup.index = 0 \/ lookup.index > LogicalLength(locals.constant_pool)))
        => lookup.st = "err"

\* C4: whenever the pool decode succeeds for a declared count n >= 1, the
\* logical length of the decoded pool is n - 1, also when a Long/Double sits
\* in the last declared slot.
C4_LogicalLengthIsCountMinusOne ==
    (PoolDecoded /\ DeclaredCount >= 1)
        => LogicalLength(locals.constant_pool) = DeclaredCount - 1

\* C5: a known attribute whose body decoder finishes has consumed exactly the
\* declared length; finishing with fewer bytes consumed is an error
\* (TrailingAttributeBytes), never a success.
C5_KnownAttributeConsumesLength ==
    \A i \in DOMAIN attr_log :
        (attr_log[i].kind \notin {"Misc", "none"} /\ attr_log[i].st = "ok")
            => attr_log[i].end - attr_log[i].start = attr_log[i].length

\* C6: the body decode of an attribute with declared length L never reads
\* beyond the L bytes that follow the attribute header.
C6_BodyStaysWithinLength ==
    \A i \in DOMAIN attr_log :
        attr_log[i].end <= attr_log[i].start + attr_log[i].length

\* C7: an attribute whose name_index designates a Utf8 constant that is none
\* of the known names, and whose declared length bytes are present, decodes
\* to Misc{name_index, info} with info the length bytes after the header, and
\* the reader ends 6 + length bytes after the start of the header.
C7_UnknownNameIsMisc ==
    \A i \in DOMAIN attr_log :
        (/\ IsFirstSlot(locals.constant_pool, attr_log[i].name_index)
         /\ ConstantAt(locals.constant_pool, attr_log[i].name_index).kind = "Utf8"
         /\ AttributeKind(ConstantAt(locals.constant_pool,
                                     attr_log[i].name_index).bytes) = "Misc"
         /\ attr_log[i].start + attr_log[i].length <= Len(input))
            => /\ attr_log[i].st = "ok"
               /\ attr_log[i].kind = "Misc"
               /\ attr_log[i].val =
                      [kind |-> "Misc", name_index |-> attr_log[i].name_index,
                       info |-> SubSeq(input, attr_log[i].start + 1,
                                       attr_log[i].start + attr_log[i].length)]
               /\ attr_log[i].end = attr_log[i].start + attr_log[i].length

\* C8: after a successful Class::read the byte source is at end of input; a
\* byte left after the class attributes makes Class::read return an error.
C8_SuccessMeansEndOfInput ==
    result = "ok" => pos = Len(input)

\* The order of the statements of Class::read.
StepOrder ==
    <<"magic", "version", "constant_pool", "access_flags", "this_super",
      "interfaces", "fields", "methods", "attributes", "eof">>

\* The attribute kind that the lookup of name_index in `pool` selects.
KindSelectedBy(pool, name_index) ==
    CHOOSE kind \in {IF n.st = "ok" THEN AttributeKind(n.val) ELSE "none" :
                        n \in {attribute_name(pool, name_index, 0)}} : TRUE

\* C9: Class::read runs its steps in the fixed order magic, version, pool,
\* access flags, this/super, interfaces, fields, methods, attributes,
\* end-of-input check; the pool is decoded before any field, method or
\* attribute, and every attribute name lookup goes through that same pool.
C9_FixedStepOrder ==
    /\ Len(steps) <= Len(StepOrder)
    /\ steps = SubSeq(StepOrder, 1, Len(steps))
    /\ pc # "done" => pc = StepOrder[Len(steps) + 1]
    /\ attr_log # <<>> => PoolDecoded
    /\ \A i \in DOMAIN attr_log :
           attr_log[i].kind =
               KindSelectedBy(locals.constant_pool, attr_log[i].name_index)

\* A complete parse of a class with a method that carries attributes.
C9_Witness ==
    /\ result = "ok"
    /\ steps = StepOrder
    /\ Len(locals.methods) >= 1
    /\ Len(attr_log) >= 2

\* C10: when a step of Class::read fails (also from inside a nested
\* structure), the parse ends at that step: it is the last step run, the
\* source stays where the failing read left it, no Class is produced and the
\* outcome is the failure of that first failing step.
C10_FirstFailureIsReturned ==
    failure.step # "none"
        => /\ pc = "done"
           /\ steps[Len(steps)] = failure.step
           /\ pos = failure.pos
           /\ result = failure.st
           /\ result # "ok"
           /\ error = failure.err

\* An attribute nested in a method fails and Class::read returns its error.
C10_Witness ==
    /\ failure.step = "methods"
    /\ failure.st = "err"
    /\ attr_log # <<>>
    /\ attr_log[Len(attr_log)].st = "err"
    /\ result = "err"
    /\ error # ""

\* C11: on an input of at least four bytes whose first four bytes are not
\* CA FE BA BE, Class::read returns the magic error with exactly those four
\* bytes consumed, whatever follows; an input that starts with CA FE BA BE
\* never gets the magic error.
C11_BadMagic ==
    (Len(input) >= 4 /\ steps # <<>>)
        => IF SubSeq(input, 1, 4) = <<202, 254, 186, 190>>
           THEN error # "Magic header is not matching"
           ELSE /\ steps = <<"magic">>
                /\ pc = "done"
                /\ result = "err"
                /\ error = "Magic header is not matching"
                /\ pos = 4

\* A first word that differs from the magic number in its last byte only,
\* with the rest of a class file behind it, is refused.
C11_Witness ==
    /\ Len(input) > 4
    /\ SubSeq(input, 1, 4) = <<202, 254, 186, 191>>
    /\ result = "err"
    /\ error = "Magic header is not matching"

\* C12: Class::read ends every input with a Class or an error value; no
\* input makes it panic, an attribute whose name_index is 0, above the number
\* of stored constants or on the second slot of a Long/Double included.
C12_ReadNeverPanics ==
    failure.st # "panic"

\* C13: an attribute whose name_index designates a constant that is not Utf8
\* fails with the malformed-attribute error before any body byte is read,
\* whatever its declared length; one whose name_index designates a Utf8
\* constant gets the body decoder that this string selects by exact match.
C13_NameSelectsDecoder ==
    \A i \in DOMAIN attr_log :
        IsFirstSlot(locals.constant_pool, attr_log[i].name_index)
            => IF ConstantAt(locals.constant_pool, attr_log[i].name_index).kind # "Utf8"
               THEN /\ attr_log[i].st = "err"
                    /\ attr_log[i].kind = "none"
                    /\ attr_log[i].end = attr_log[i].start
               ELSE attr_log[i].kind =
                        AttributeKind(ConstantAt(locals.constant_pool,
                                                 attr_log[i].name_index).bytes)

\* The tag table of the constant pool: the variant of a tag ...
TagVariant(t) ==
    CASE t = 1 -> "Utf8"
      [] t = 3 -> "Integer"
      [] t = 4 -> "Float"
      [] t = 5 -> "Long"
      [] t = 6 -> "Double"
      [] t = 7 -> "Class"
      [] t = 8 -> "String"
      [] t = 9 -> "Field"
      [] t = 10 -> "Method"
      [] t = 11 -> "InterfaceMethod"
      [] t = 12 -> "NameAndType"
      [] t = 15 -> "MethodHandle"
      [] t = 16 -> "MethodType"
      [] t = 18 -> "InvokeDynamic"
      [] t = 19 -> "Module"
      [] t = 20 -> "Package"
      [] OTHER -> "none"

\* ... and the number of payload bytes behind it (for Utf8: the u16 length and
\* as many bytes as it says, once the length itself is there).
TagPayload(t, s) ==
    CASE t = 1 -> IF Len(s) >= 3 THEN 2 + s[2] * 256 + s[3] ELSE 2
      [] t \in {3, 4, 9, 10, 11, 12, 18} -> 4
      [] t \in {5, 6} -> 8
      [] t \in {7, 8, 16, 19, 20} -> 2
      [] t = 15 -> 3

\* The bytes a decoded constant holds, in wire order.
ConstantBytes(c) ==
    CASE c.kind = "Utf8" -> c.bytes
      [] c.kind \in {"Integer", "Float", "Long", "Double"} -> c.value
      [] c.kind = "MethodHandle" -> <<c.fields[1]>> \o u16(c.fields[2])
      [] OTHER -> Flatten([i \in 1..Len(c.fields) |-> u16(c.fields[i])])

\* C14: for every tag byte, constant decode yields the variant of the tag
\* table and consumes its payload; every tag outside the table fails with the
\* unknown-tag error, and so does the decode of a pool that holds it.
C14_ConstantTagTable ==
    (probe.T = "Constant" /\ probe.r # Pending)
        => IF TagVariant(probe.s[1]) = "none"
           THEN /\ probe.r.st = "err"
                /\ probe.r.err = "Cannot match constant tag"
                /\ ConstantPool_read_one(u16(2) \o probe.s, 0).st = "err"
                /\ ConstantPool_read_one(u16(2) \o probe.s, 0).err
                       = "Cannot match constant tag"
           ELSE IF Len(probe.s) < 1 + TagPayload(probe.s[1], probe.s)
           THEN probe.r.st = "err"
           ELSE /\ probe.r.st = "ok"
                /\ probe.r.val.kind = TagVariant(probe.s[1])
                /\ probe.r.pos = 1 + TagPayload(probe.s[1], probe.s)
                /\ ConstantBytes(probe.r.val)
                       = SubSeq(probe.s, IF probe.s[1] = 1 THEN 4 ELSE 2, probe.r.pos)

\* A Module constant (tag 19) is decoded from its two payload bytes, with
\* more bytes behind them left unread.
C14_Witness ==
    /\ probe.T = "Constant"
    /\ probe.r # Pending
    /\ probe.s[1] = 19
    /\ Len(probe.s) > 3
    /\ probe.r.st = "ok"
    /\ probe.r.val = [kind |-> "Module", fields |-> <<2>>]
    /\ probe.r.pos = 3

\* The verification types in the order of their tags 0..8.
VerificationTypes ==
    <<"Top", "Integer", "Float", "Double", "Long", "Null", "UninitializedThis",
      "Object", "Uninitialized">>

\* C16: for every verification-type tag byte, decode yields Top, Integer,
\* Float, Double, Long, Null, UninitializedThis for 0..6 with no further byte
\* consumed, Object and Uninitialized for 7 and 8 with exactly one following
\* u16, and an error for every tag from 9 to 255.
C16_VerificationTypeTable ==
    (probe.T = "VerificationType" /\ probe.r # Pending)
        => IF probe.s[1] >= 9
           THEN /\ probe.r.st = "err"
                /\ probe.r.err = "Cannot determine verification type"
           ELSE IF probe.s[1] <= 6
           THEN /\ probe.r.st = "ok"
                /\ probe.r.val = [kind |-> VerificationTypes[probe.s[1] + 1],
                                  fields |-> <<>>]
                /\ probe.r.pos = 1
           ELSE IF Len(probe.s) < 3
           THEN probe.r.st = "err"
           ELSE /\ probe.r.st = "ok"
                /\ probe.r.val = [kind |-> VerificationTypes[probe.s[1] + 1],
                                  fields |-> <<probe.s[2] * 256 + probe.s[3]>>]
                /\ probe.r.pos = 3

\* A Long verification type (tag 4) is decoded from the tag alone although
\* more bytes follow.
C16_Witness ==
    /\ probe.T = "VerificationType"
    /\ probe.s[1] = 4
    /\ Len(probe.s) > 1
    /\ probe.r # Pending
    /\ probe.r.st = "ok"
    /\ probe.r.val.kind = "Long"
    /\ probe.r.pos = 1

\* The frame that the frame table gives for first byte t followed by
\* FrameTail(t).
FrameOfTable(t) ==
    CASE t \in 0..63 ->
           [kind |-> "Same", offset_delta |-> t, locals |-> <<>>, stack |-> <<>>]
      [] t \in 64..127 ->
           [kind |-> "SameLocalsOneStackItem", offset_delta |-> t - 64,
            locals |-> <<>>, stack |-> <<[kind |-> "Object", fields |-> <<9>>]>>]
      [] t = 247 ->
           [kind |-> "SameLocalsOneStackItemExtended", offset_delta |-> 3,
            locals |-> <<>>, stack |-> <<[kind |-> "Integer", fields |-> <<>>]>>]
      [] t \in 248..250 ->
           [kind |-> "Chop", offset_delta |-> 3, locals |-> <<>>, stack |-> <<>>]
      [] t = 251 ->
           [kind |-> "SameExtended", offset_delta |-> 3, locals |-> <<>>,
            stack |-> <<>>]
      [] t \in 252..254 ->
           [kind |-> "Append", offset_delta |-> 3,
            locals |-> SubSeq(<<[kind |-> "Float", fields |-> <<>>],
                                [kind |-> "Object", fields |-> <<9>>],
                                [kind |-> "Top", fields |-> <<>>]>>, 1, t - 251),
            stack |-> <<>>]
      [] t = 255 ->
           [kind |-> "Full", offset_delta |-> 3,
            locals |-> <<[kind |-> "Integer", fields |-> <<>>],
                         [kind |-> "Uninitialized", fields |-> <<4>>]>>,
            stack |-> <<[kind |-> "Long", fields |-> <<>>]>>]

\* C15: a StackMapTable body is a u16 count and that many frames, and the
\* frame decoded for first byte t is the one of the frame table: Same for
\* 0..63 (offset_delta t), SameLocalsOneStackItem for 64..127 (offset_delta
\* t - 64, one verification type), an error for 128..246,
\* SameLocalsOneStackItemExtended for 247, Chop for 248..250, SameExtended for
\* 251, Append with t - 251 verification types for 252..254, Full with two
\* counted lists for 255.
C15_FrameTable ==
    (probe.T = "StackMapTable" /\ probe.r # Pending)
        => IF probe.s[3] \in 128..246
           THEN /\ probe.r.st = "err"
                /\ probe.r.err = "Reserved frame type"
           ELSE IF Len(probe.s) < 3 + Len(FrameTail(probe.s[3])) + (probe.s[2] - 1)
           THEN probe.r.st = "err"
           ELSE /\ probe.r.st = "ok"
                /\ probe.r.pos = Len(probe.s)
                /\ Len(probe.r.val) = probe.s[2]
                /\ probe.r.val[1] = FrameOfTable(probe.s[3])
                /\ \A i \in 2..probe.s[2] :
                       probe.r.val[i] = [kind |-> "Same", offset_delta |-> 8 + i,
                                         locals |-> <<>>, stack |-> <<>>]

\* A table of two frames, an Append frame with three locals followed by a
\* Same frame, is decoded whole.
C15_Witness ==
    /\ probe.T = "StackMapTable"
    /\ probe.r # Pending
    /\ probe.s[2] = 2
    /\ probe.s[3] = 254
    /\ probe.r.st = "ok"
    /\ Len(probe.r.val) = 2
    /\ Len(probe.r.val[1].locals) = 3

\* The tags of the element-value table: 'B' 'C' 'D' 'F' 'I' 'J' 'S' 'Z' 's',
\* 'e', 'c', '@', '['.
ElementTags == {66, 67, 68, 70, 73, 74, 83, 90, 115, 101, 99, 64, 91}

\* The element value that the table gives for tag t followed by
\* ElementTail(t).
ElementOfTable(t) ==
    CASE t = 101 -> [kind |-> "Enum", fields |-> <<1, 2>>]
      [] t = 99 -> [kind |-> "Class", fields |-> <<7>>]
      [] t = 64 ->
           [kind |-> "Annotation",
            annotation |->
                [kind |-> "Annotation", type_index |-> 8,
                 element_value_pairs |->
                     <<[kind |-> "ElementValuePair", element_name_index |-> 4,
                        value |-> [kind |-> "Constant", fields |-> <<5>>]]>>]]
      [] t = 91 ->
           [kind |-> "Array",
            array_values |-> <<[kind |-> "Constant", fields |-> <<5>>],
                               [kind |-> "Constant", fields |-> <<6>>]>>]
      [] OTHER -> [kind |-> "Constant", fields |-> <<5>>]

RECURSIVE Nested(_, _)
Nested(path, value) ==
    IF path = <<>>
    THEN value
    ELSE IF Head(path) = "array"
    THEN [kind |-> "Array", array_values |-> <<Nested(Tail(path), value)>>]
    ELSE [kind |-> "Annotation",
          annotation |->
              [kind |-> "Annotation", type_index |-> 3,
               element_value_pairs |->
                   <<[kind |-> "ElementValuePair", element_name_index |-> 4,
                      value |-> Nested(Tail(path), value)]>>]]

\* C17: an element value is decoded by its tag: one u16 for 'B' 'C' 'D' 'F'
\* 'I' 'J' 'S' 'Z' 's', two u16 for 'e', one u16 for 'c', a nested annotation
\* for '@', a u16-counted list of element values for '['; any other tag is
\* the unknown-element-value-tag error, at any nesting depth; and a value
\* whose last byte is missing is an error.
C17_ElementValueTable ==
    (probe.T = "ElementValue" /\ probe.r # Pending)
        => \A path \in Paths, t \in 0..255 :
               /\ probe.s = ElementBytes(path, t)
                      => IF t \in ElementTags
                         THEN /\ probe.r.st = "ok"
                              /\ probe.r.pos = Len(probe.s)
                              /\ probe.r.val = Nested(path, ElementOfTable(t))
                         ELSE /\ probe.r.st = "err"
                              /\ probe.r.err = "Unknown tag for annotation element value"
               /\ (/\ t \in ElementTags
                   /\ probe.s = SubSeq(ElementBytes(path, t), 1,
                                       Len(ElementBytes(path, t)) - 1))
                      => probe.r.st = "err"

\* The tag 's' inside an annotation inside an array is decoded as a constant
\* element value.
C17_Witness ==
    /\ probe.T = "ElementValue"
    /\ probe.r # Pending
    /\ probe.s = ElementBytes(<<"array", "annotation">>, 115)
    /\ probe.r.st = "ok"
    /\ probe.r.val.kind = "Array"
    /\ probe.r.val.array_values[1].annotation.element_value_pairs[1].value
           = [kind |-> "Constant", fields |-> <<5>>]

\* The bits of each scope's mask, by position: 0 PUBLIC, 1 PRIVATE,
\* 2 PROTECTED, 3 STATIC, 4 FINAL, 5 SUPER / SYNCHRONIZED, 6 VOLATILE / BRIDGE,
\* 7 TRANSIENT / VARARGS, 8 NATIVE, 9 INTERFACE, 10 ABSTRACT, 11 STRICT,
\* 12 SYNTHETIC, 13 ANNOTATION, 14 ENUM.
MaskBits(scope) ==
    CASE scope = "class" -> {0, 4, 5, 9, 10, 12, 13, 14}
      [] scope = "field" -> {0, 1, 2, 3, 4, 6, 7, 12, 14}
      [] scope = "method" -> {0, 1, 2, 3, 4, 5, 6, 7, 8, 10, 11, 12}
      [] scope = "inner-class" -> {0, 1, 2, 3, 4, 9, 10, 12, 13, 14}

BitsOf(v) == {b \in 0..15 : (v \div (2 ^ b)) % 2 = 1}

\* The statement of Class::read that decodes the scope's flags, and the error
\* it gives.
FlagStep(scope) ==
    CASE scope = "class" -> "access_flags"
      [] scope = "field" -> "fields"
      [] scope = "method" -> "methods"
      [] scope = "inner-class" -> "attributes"

FlagError(scope) ==
    CASE scope = "class" -> "Invalid class access flags"
      [] scope = "field" -> "Invalid field access flags"
      [] scope = "method" -> "Invalid method access flags"
      [] scope = "inner-class" -> "Invalid inner class access flags"

\* The access_flags value that a finished parse holds for the scope.
FlagsDecoded(scope) ==
    CASE scope = "class" -> locals.access_flags
      [] scope = "field" -> locals.fields[1].access_flags
      [] scope = "method" -> locals.methods[1].access_flags
      [] scope = "inner-class" -> locals.attributes[1].items[1].fields[4]

\* C18: in each scope (class, field, method, inner class) a value v of
\* access_flags is accepted if and only if no bit of v lies outside the
\* scope's mask; any other v gives the scope's invalid-access-flags error,
\* and Class::read returns it without running a later statement.
C18_FlagsWithinMask ==
    (pc = "done" /\ lookup = NoLookup)
        => \A c \in FlagCases :
               input = c.bytes
                   => IF BitsOf(c.v) \subseteq MaskBits(c.scope)
                      THEN /\ result = "ok"
                           /\ FlagsDecoded(c.scope) = c.v
                      ELSE /\ result = "err"
                           /\ error = FlagError(c.scope)
                           /\ steps[Len(steps)] = FlagStep(c.scope)

\* An inner class entry with bit 5 (no inner-class flag) set is refused.
C18_Witness ==
    /\ pc = "done"
    /\ input = FlagInput("inner-class", 32)
    /\ result = "err"
    /\ error = "Invalid inner class access flags"

\* The value of Element(T, i).
ElementDecoded(T, i) ==
    CASE T = "Interface" -> [kind |-> "Interface", fields |-> <<i>>]
      [] T \in {"FieldInfo", "MethodInfo"} ->
           [kind |-> T, access_flags |-> 1, name_index |-> i,
            descriptor_index |-> i, attributes |-> <<>>]
      [] T = "Attribute" -> [kind |-> "Misc", name_index |-> 1, info |-> <<i>>]
      [] T = "ExceptionTableAttribute" ->
           [kind |-> "ExceptionTable", fields |-> <<i, i, i, i>>]
      [] T = "LineNumberTableAttribute" -> [kind |-> "LineNumber", fields |-> <<i, i>>]
      [] T = "LocalVariableTableAttribute" ->
           [kind |-> "LocalVariable", fields |-> <<i, i, i, i, i>>]
      [] T = "LocalVariableTypeTableAttribute" ->
           [kind |-> "LocalVariableType", fields |-> <<i, i, i, i, i>>]
      [] T = "AnnotationAttribute" ->
           [kind |-> "Annotation", type_index |-> i,
            element_value_pairs |->
                <<[kind |-> "ElementValuePair", element_name_index |-> 4,
                   value |-> [kind |-> "Constant", fields |-> <<i>>]]>>]
      [] T = "ParameterAnnotationAttribute" ->
           [kind |-> "ParameterAnnotation",
            annotations |->
                <<[kind |-> "Annotation", type_index |-> i,
                   element_value_pairs |->
                       <<[kind |-> "ElementValuePair", element_name_index |-> 4,
                          value |-> [kind |-> "Constant", fields |-> <<i>>]]>>]>>]
      [] T = "ElementValuePair" ->
           [kind |-> "ElementValuePair", element_name_index |-> i,
            value |-> [kind |-> "Constant", fields |-> <<i>>]]
      [] T = "StackMapTableAttribute" ->
           [kind |-> "Chop", offset_delta |-> i, locals |-> <<>>, stack |-> <<>>]
      [] T = "BootstrapMethodAttribute" ->
           [kind |-> "BootstrapMethod", bootstrap_method_ref |-> i,
            bootstrap_arguments |-> [j \in 1..i |-> j]]

\* C19: a counted collection other than the pool (interfaces, fields,
\* methods, attributes, exception table, line and local-variable tables,
\* annotations, element-value pairs, stack-map frames, bootstrap methods and
\* their arguments) that is decoded has exactly as many elements as its
\* declared count, in the order of the wire, and the decode stops after the
\* last of them; when the input ends before the declared count is reached the
\* decode fails.
C19_CountedCollections ==
    (probe.T \in CountedTypes /\ probe.r # Pending)
        => \A c \in CountedCases :
               (c.T = probe.T /\ probe.s = CountedBytes(c.T, c.n, c.k, c.cut))
                   => IF c.k - c.cut >= c.n
                      THEN /\ probe.r.st = "ok"
                           /\ Len(probe.r.val) = c.n
                           /\ probe.r.val = [i \in 1..c.n |-> ElementDecoded(c.T, i)]
                           /\ probe.r.pos = Len(CountedBytes(c.T, c.n, c.n, 0))
                      ELSE probe.r.st = "err"

\* Three bootstrap methods are declared and three are there: all three are
\* returned, the third with its three arguments.
C19_Witness ==
    /\ probe.T = "BootstrapMethodAttribute"
    /\ probe.r # Pending
    /\ probe.s = CountedBytes("BootstrapMethodAttribute", 3, 3, 0)
    /\ probe.r.st = "ok"
    /\ Len(probe.r.val) = 3
    /\ probe.r.val[3].bootstrap_arguments = <<1, 2, 3>>

EndsInDotClass(name) ==
    /\ Len(name) >= 6
    /\ SubSeq(name, Len(name) - 5, Len(name)) = <<".", "c", "l", "a", "s", "s">>

\* The number of entries the walk has been through: those left behind and
\* the one whose decode is under way.
Passed == jar.file_index + (IF pc = "idle" THEN 0 ELSE 1)

\* C21: the entries that load_jar hands to Class::read are exactly the
\* entries gone through whose name ends in .class, each once and in the
\* order of the archive index, whatever the decode of earlier entries
\* returned; and when the walk has ended in Ok, one error is printed for each
\* handed entry that is no class.
C21_ClassEntriesInOrder ==
    jar.result # "none"
        => /\ jar.handed =
                  SelectSeq([i \in 1..Passed |-> i - 1],
                            LAMBDA i : EndsInDotClass(jar.zip[i + 1].name))
           /\ jar.result = "ok"
                  => Cardinality({k \in 1..Len(jar.printed) :
                                      jar.printed[k] # "Reading class"})
                         = Cardinality({k \in 1..Len(jar.handed) :
                                      jar.zip[jar.handed[k] + 1].bytes # GoodClass})

\* C30: when by_index fails for an entry, load_jar ends with that error at
\* once: no entry of that index or a higher one is handed to Class::read,
\* and load_jar takes no further step.
C30_OpenFailureEndsWalk ==
    /\ \A i \in 1..Len(jar.zip) :
           (~jar.zip[i].opens /\ Passed >= i)
               => /\ jar.result = "err"
                  /\ jar.file_index = i - 1
    /\ jar.result = "err"
           => /\ ~jar.zip[jar.file_index + 1].opens
              /\ \A k \in 1..Len(jar.handed) : jar.handed[k] < jar.file_index
              /\ ~ENABLED NextJar

\* The second of three entries cannot be opened: the first, a class, was
\* handed over, the third, a class as well, is not.
C30_Witness ==
    /\ jar.result = "err"
    /\ Len(jar.zip) = 3
    /\ jar.file_index = 1
    /\ jar.handed = <<0>>
    /\ jar.zip[3].opens
    /\ EndsInDotClass(jar.zip[3].name)

C23_PoolIsFrozen ==
    (\E i \in 1..Len(steps) : steps[i] = "constant_pool" /\ failure.step # "constant_pool")
        => LET decoded == ConstantPool_read_one(input, 8)
           IN /\ decoded.st = "ok"
              /\ locals.constant_pool = decoded.val

\* A Class with a Long in its pool and an attribute decoded against it has
\* been returned and a consumer has looked a constant up.
C23_Witness ==
    /\ pc = "done"
    /\ lookup # NoLookup
    /\ attr_log # <<>>
    /\ locals.methods # <<>>
    /\ locals.constant_pool.skip_table # <<>>

BoundBy(step, class) ==
    CASE step = "version" -> <<class.minor_version, class.major_version>>
      [] step = "constant_pool" -> class.constant_pool
      [] step = "access_flags" -> class.access_flags
      [] step = "this_super" -> <<class.this_class, class.super_class>>
      [] step = "interfaces" -> class.interfaces
      [] step = "fields" -> class.fields
      [] step = "methods" -> class.methods
      [] step = "attributes" -> class.attributes
      [] OTHER -> <<>>

\* C25: on an input that ends early every read of a fixed width and every
\* read of n raw bytes (Utf8 payload, code, Misc and SourceDebugExtension
\* body) fails with the Io error, which Class::read returns; nothing is built
\* from a buffer that was not filled: the statement that failed has bound
\* nothing. On the whole input each of them holds exactly the bytes asked
\* for.
C25_ExactReadOrIoError ==
    (pc = "done" /\ lookup = NoLookup)
        => \A k \in 0..Len(WholeClass) :
               input = SubSeq(WholeClass, 1, k)
                   => IF k < Len(WholeClass)
                      THEN /\ result = "err"
                           /\ error = "failed to fill whole buffer"
                           /\ BoundBy(steps[Len(steps)], locals)
                                  = BoundBy(steps[Len(steps)], NoLocals)
                      ELSE /\ result = "ok"
                           /\ locals.constant_pool.constants[3].bytes = Name_MyCustom
                           /\ locals.methods[1].attributes[1].code = <<42, 183, 177>>
                           /\ locals.attributes[1].debug_info = <<83, 77, 65>>
                           /\ locals.attributes[2].info = <<222, 173, 190, 239>>

\* The input ends inside the body of the last attribute, one byte short:
\* the Io error is returned.
C25_Witness ==
    /\ pc = "done"
    /\ input = SubSeq(WholeClass, 1, Len(WholeClass) - 1)
    /\ result = "err"
    /\ error = "failed to fill whole buffer"
    /\ steps[Len(steps)] = "attributes"

\* The annotation that AnnotationBytes(n) encodes.
AnnotationOf(n) ==
    [kind |-> "Annotation", type_index |-> n,
     element_value_pairs |->
         <<[kind |-> "ElementValuePair", element_name_index |-> 4,
            value |-> [kind |-> "Constant", fields |-> <<n>>]]>>]

\* C26 as stated: the body is a list of annotations counted by one byte:
\* for a body that declares k with that byte and holds k annotations right
\* behind it, the k annotations are produced and 1 byte and theirs consumed.
C26_FlatAnnotationList ==
    (probe.T \in ParameterAnnotationKinds /\ probe.r # Pending)
        => \A k \in 0..MaxParameters :
               probe.s = FlatBody(k)
                   => /\ probe.r.st = "ok"
                      /\ probe.r.pos = Len(probe.s)
                      /\ Len(probe.r.val.items) = k

\* C26 as amended: the body is a list, counted by one byte (not a u16), of
\* parameters, each of which is a u16-counted list of annotations: for a
\* body that declares k with that byte and holds k such lists, the k lists
\* are produced, each with its annotations in order, and 1 byte and theirs
\* consumed.
C26_ParameterLists ==
    (probe.T \in ParameterAnnotationKinds /\ probe.r # Pending)
        => \A ms \in ParameterCounts :
               probe.s = ParametersBody(ms)
                   => /\ probe.r.st = "ok"
                      /\ probe.r.pos = Len(probe.s)
                      /\ probe.r.val.kind = probe.T
                      /\ probe.r.val.items =
                             [i \in 1..Len(ms) |->
                                 [kind |-> "ParameterAnnotation",
                                  annotations |->
                                      [j \in 1..ms[i] |-> AnnotationOf(10 * i + j)]]]

\* Two parameters, the first with two annotations and the second with one,
\* are decoded.
C26_Witness ==
    /\ probe.T = "RuntimeInvisibleParameterAnnotations"
    /\ probe.r # Pending
    /\ probe.s = ParametersBody(<<2, 1>>)
    /\ probe.r.st = "ok"
    /\ Len(probe.r.val.items) = 2
    /\ Len(probe.r.val.items[1].annotations) = 2
    /\ probe.r.val.items[2].annotations[1].type_index = 21

\* The Code attribute that CodeBody(c, e, n) encodes.
CodeOf(c, e, n) ==
    [kind |-> "Code", max_stack |-> 2, max_locals |-> 1,
     code |-> [i \in 1..c |-> i],
     exception_tables |->
         [i \in 1..e |-> [kind |-> "ExceptionTable", fields |-> <<i, i + 1, i + 2, i>>]],
     attributes |->
         [i \in 1..n |->
             [kind |-> "LineNumberTable",
              items |-> <<[kind |-> "LineNumber", fields |-> <<0, 10>>],
                          [kind |-> "LineNumber", fields |-> <<4, 11>>]>>]]]

C28_ReferencesKeptAsRead ==
    (pc = "done" /\ lookup = NoLookup)
        => \A x \in References :
               input = ReferenceInput(x)
                   => /\ result = "ok"
                      /\ locals.constant_pool.constants[2]
                             = [kind |-> "Class", fields |-> <<x>>]
                      /\ locals.constant_pool.constants[3]
                             = [kind |-> "NameAndType", fields |-> <<x, x>>]
                      /\ locals.constant_pool.constants[4]
                             = [kind |-> "String", fields |-> <<x>>]
                      /\ locals.this_class = x
                      /\ locals.super_class = x
                      /\ locals.interfaces = <<[kind |-> "Interface", fields |-> <<x>>]>>
                      /\ locals.fields[1].name_index = x
                      /\ locals.fields[1].descriptor_index = x
                      /\ locals.fields[1].attributes[1].fields = <<x>>
                      /\ locals.methods[1].name_index = x
                      /\ locals.methods[1].descriptor_index = x
                      /\ \A i \in 1..Len(attr_log) : attr_log[i].name_index = 1

\* The class all of whose references are 0 is returned.
C28_Witness ==
    /\ pc = "done"
    /\ input = ReferenceInput(0)
    /\ result = "ok"
    /\ locals.this_class = 0
    /\ locals.fields[1].attributes[1].fields = <<0>>

\* How deep a decoded element nests: an array of element values, an
\* annotation given as an element value, or a Code attribute is one level
\* above the deepest of its elements.
RECURSIVE Nesting(_)
Nesting(v) ==
    LET Deepest(vs) ==
            IF vs = <<>> THEN 0
            ELSE CHOOSE d \in {Nesting(vs[i]) : i \in 1..Len(vs)} :
                     \A i \in 1..Len(vs) : Nesting(vs[i]) <= d
    IN IF v.kind = "Array" THEN 1 + Deepest(v.array_values)
       ELSE IF v.kind = "Annotation" /\ "annotation" \in DOMAIN v
       THEN 1 + Deepest([i \in 1..Len(v.annotation.element_value_pairs) |->
                            v.annotation.element_value_pairs[i].value])
       ELSE IF v.kind = "Code" THEN 1 + Deepest(v.attributes)
       ELSE 0

\* The call has returned: the loop with a result, Class::read at its end.
Returned ==
    IF probe = NoProbe THEN pc = "done" ELSE probe.r.st \in {"ok", "err", "panic"}

\* While the loop runs it has taken no more turns than the declared count,
\* holds one element per turn, and each turn took at least one byte of the
\* input; Class::read takes each of its ten steps at most once and never
\* reads past the input.
LoopBounded ==
    /\ (probe.T \in LoopTypes /\ probe.r.st = "loop") =>
          /\ probe.r.turns <= probe.r.count
          /\ Len(probe.r.val) = probe.r.turns
          /\ probe.r.index <= probe.r.count + 1
          /\ probe.r.turns < probe.r.pos
          /\ probe.r.pos <= Len(probe.s)
    /\ probe = NoProbe => Len(steps) <= 10 /\ pos <= Len(input)

\* What the loop returns turn by turn is what read_all_from returns.
LoopReturns ==
    (probe.T \in LoopTypes /\ probe.r.st \in {"ok", "err", "panic"}) =>
        \E r \in {read_all_from(probe.T, probe.s, 0, LoopContext(probe.T, probe.s),
                                LoopFrom(probe.T))} :
            probe.r = [st |-> r.st, pos |-> r.pos, val |-> r.val, err |-> r.err]

\* A turn after which the loop goes on moved the index up by 1, or by 2 for
\* a Long or Double constant, and took more bytes than its element nests
\* deep.
LoopAdvances ==
    (probe.T \in LoopTypes /\ probe.r.st = "loop" /\ probe'.r.st = "loop") =>
        /\ probe'.r.index - probe.r.index \in {1, 2}
        /\ probe'.r.index - probe.r.index = 2 <=>
               (probe.T = "Constant"
                /\ probe'.r.val[Len(probe'.r.val)].kind \in {"Long", "Double"})
        /\ probe'.r.turns = probe.r.turns + 1
        /\ probe'.r.pos - probe.r.pos > Nesting(probe'.r.val[Len(probe'.r.val)])

\* C29: Class::read and every counted loop in it come to an end on every
\* finite input: a loop takes at most as many turns as the count it read,
\* its index goes up by 1 or 2 each turn, every element (nested attributes,
\* annotations and arrays included) takes at least one byte per level, and
\* the call returns.
C29_ReadTerminates ==
    /\ [](LoopBounded /\ LoopReturns)
    /\ [][LoopAdvances]_vars
    /\ <>Returned

\* A pool read turn by turn came back with a Long in front of another
\* constant: the index went up by 2 and then by 1.
C29_Witness ==
    /\ probe.T = "Constant"
    /\ probe.r.st = "ok"
    /\ Len(probe.r.val) = 2
    /\ probe.r.val[1].kind = "Long"
    /\ probe.r.val[2].kind = "Utf8"

====
